---- MODULE Spec2Model ----
(***************************************************************************)
(* Model of the Copilot coding-agent orchestrator: the daemon cycle        *)
(* (status refresh + per-item scan), the cooldown manager, the review      *)
(* tracker (loop-breaker) and the engine's own action loop.                *)
(***************************************************************************)
EXTENDS Integers, Sequences, FiniteSets, TLC

\* ---------------------------------------------------------------- bounds
QueueLen == 2           \* number of queue items (issue ids 1..QueueLen)
MaxPR == 1              \* pull request numbers 1..MaxPR
MaxClock == 1           \* the daemon's clock runs over 0..MaxClock ticks
MaxCooldownClock == 4   \* clock range when the CooldownManager is driven alone
TicksPerMinute == 1     \* clock resolution: ticks per minute
CooldownMinutes == 1    \* automation.cooldown_minutes of the configuration
MaxEvents == 3          \* timeline events read by one classification
MaxComments == 4        \* issue comments read by one classification
MaxNow == 5             \* the classifier's clock runs over 0..MaxNow ticks
SecondsPerTick == 60    \* resolution of the classifier's clock
NumProcs == 2           \* processes that try to start the daemon
MaxCycles == 1          \* cycles one daemon runs
PollInterval == 1       \* automation.poll_interval: 1-second slices of one sleep
MaxSnapshots == 3       \* status snapshots the daemon writes
Chunks == 2             \* pieces in which one snapshot reaches the file
MaxReads == 2           \* reads of the status file by the dashboard
MaxHeldPR == 2          \* PR numbers an item can hold when a cycle begins
MaxAdded == 52          \* add_event calls made for one item
MaxRounds == 2          \* reviews of one PR that leave suggestions

\* ------------------------------------------------------ program constants
GracePeriodSeconds == 120   \* grace period for comment indexing
MAX_EVENTS_PER_ISSUE == 50  \* WorkflowHistory: keep last 50 events per issue

\* ------------------------------------------------------------- variables
VARIABLES
    queue,          \* engine.state.queue: sequence of QueueItem records
    tracker,        \* ReviewTracker._data["review_completed_prs"]: pr -> issue_id
    cooldownFile,   \* last_assignment.json of the CooldownManager
    clock,          \* datetime.now(), in ticks
    cfg,            \* the 'automation' section of config.yaml
    mergedPRs,      \* pull requests that are merged on the service (permanent)
    phase,          \* position of the running loop
    idx,            \* index of the queue item the loop is at
    can_assign,     \* local can_assign of _process_cycle
    cycle,          \* per-cycle bookkeeping (actions_taken summary)
    last,           \* what the last step did: facts read, calls issued
    returned,       \* value returned by the last CooldownManager.can_assign()
    allowed,        \* can_assign() has returned true since the last completion
    classifier,     \* _to_pr_info: position and local variables of one call
    lifecycle,      \* PID file, status file and the processes of start/stop
    statusIO,       \* STATUS_FILE byte by byte: one writer, one reader
    workflow_history, \* WorkflowHistory: _data["issues"] and workflow_history.json
    agent           \* the service's side of each issue: assignment, PR, review rounds

vars == <<queue, tracker, cooldownFile, clock, cfg, mergedPRs, phase, idx,
          can_assign, cycle, last, returned, allowed, classifier, lifecycle,
          statusIO, workflow_history, agent>>

\* the variables the workflow (refresh, scan, cooldown) never touches; the
\* events the handlers add to the WorkflowHistory are written only, and are
\* followed where the history is driven alone
NotWorkflowVars == <<classifier, lifecycle, statusIO, workflow_history, agent>>

\* ----------------------------------------------------------- enumerations
WorkflowState == {"QUEUED", "ASSIGNED", "PR_OPEN", "REVIEW_REQUESTED", "REVIEWING",
                  "CHANGES_REQUESTED", "APPLYING_CHANGES", "APPROVED", "MERGED",
                  "COMPLETED"}

IssueState == {"OPEN", "CLOSED", "IN_PROGRESS"}

PRState == {"OPEN", "CLOSED", "MERGED", "DRAFT", "REVIEW_REQUESTED",
            "CHANGES_REQUESTED", "APPROVED"}

Terminal == {"MERGED", "COMPLETED"}

\* states counted as "active" by the assignment guard and get_current_status
InFlightStates == WorkflowState \ {"QUEUED", "MERGED", "COMPLETED"}

NoPR == 0
NoIssue == 0
Items == 1..QueueLen
PRNumbers == 1..MaxPR

\* QueueItem as constructed by _initialize_queue / add_item.  last_action and
\* last_action_time are written together and never read by the workflow: the
\* model keeps the write (see Result.last_action), not the stored text.
NewItem(n) ==
    [state |-> "QUEUED", issue_number |-> n, pr_number |-> NoPR]

\* ------------------------------------------------------ issue / PR facts
\* result of get_issue_by_number / get_issue_by_title_pattern (None = NoIssueInfo)
NoIssueInfo == [number |-> NoIssue, state |-> "NONE"]
IssueInfos(i) == {NoIssueInfo} \cup {[number |-> i, state |-> s] : s \in IssueState}

\* the facts _to_pr_info resolves into a PRState
RawFacts ==
    {r \in [merged : BOOLEAN, closed : BOOLEAN,
            review_state : {"NONE", "APPROVED", "CHANGES_REQUESTED", "COMMENTED"},
            copilot_has_reviewed : BOOLEAN, has_pending_suggestions : BOOLEAN,
            copilot_work_just_finished : BOOLEAN, requested_reviewers : BOOLEAN,
            draft : BOOLEAN, copilot_is_working : BOOLEAN] :
        /\ (r.has_pending_suggestions => r.copilot_has_reviewed)
        /\ (r.copilot_work_just_finished => r.copilot_has_reviewed)
        \* the grace-period check subtracts a string from a datetime and the
        \* flag is never set (see TimelineFlags)
        /\ ~r.copilot_work_just_finished
        /\ (r.merged => r.closed)}

\* final priority resolution of _to_pr_info
ResolvePRState(r) ==
    IF r.merged THEN "MERGED"
    ELSE IF r.closed THEN "CLOSED"
    ELSE IF r.review_state = "APPROVED" THEN "APPROVED"
    ELSE IF r.review_state = "CHANGES_REQUESTED" THEN "CHANGES_REQUESTED"
    ELSE IF r.copilot_has_reviewed /\ r.has_pending_suggestions THEN "CHANGES_REQUESTED"
    ELSE IF r.copilot_has_reviewed /\ ~r.has_pending_suggestions
         THEN (IF r.copilot_work_just_finished THEN "REVIEW_REQUESTED" ELSE "APPROVED")
    ELSE IF r.requested_reviewers /\ ~r.copilot_has_reviewed THEN "REVIEW_REQUESTED"
    ELSE IF r.draft THEN "DRAFT"
    ELSE "OPEN"

\* PRInfo returned by _to_pr_info (the fields the workflow reads)
ToPRInfo(r, n) ==
    [number |-> n, state |-> ResolvePRState(r), is_draft |-> r.draft,
     copilot_is_working |-> r.copilot_is_working, reviewers |-> r.requested_reviewers]

NoPRInfo == [number |-> NoPR, state |-> "NONE", is_draft |-> FALSE,
             copilot_is_working |-> FALSE, reviewers |-> FALSE]

PRInfoShapes == {ToPRInfo(r, NoPR) : r \in RawFacts}

PRInfos(n) == {[s EXCEPT !.number = n] : s \in PRInfoShapes}

\* get_pr_by_number: None on any failure; a merged PR stays merged
GetPRByNumber(n) ==
    {NoPRInfo} \cup {p \in PRInfos(n) : (n \in mergedPRs) => (p.state = "MERGED")}

\* get_pr_by_issue: the first open pull request whose title or body contains
\* the issue id as a substring; one text can contain the ids of several items
GetPRByIssue ==
    {NoPRInfo} \cup
    UNION {{p \in PRInfos(n) : p.state \notin {"MERGED", "CLOSED"}} :
           n \in PRNumbers \ mergedPRs}

\* ------------------------------------------------------- CooldownManager
NoMinutes == -1     \* the None of (can_assign, minutes_remaining)

NoCooldownFile == [kind |-> "absent", issue_id |-> 0, timestamp |-> 0]
UnreadableCooldownFile == [kind |-> "unreadable", issue_id |-> 0, timestamp |-> 0]

\* can_assign with the cooldown end excluded (> for >=)
CanAssignStrict(file, now) ==
    IF file.kind # "record"
    THEN [can |-> TRUE, remaining |-> NoMinutes]
    ELSE LET cooldown_end == file.timestamp + CooldownMinutes * TicksPerMinute
         IN  IF now > cooldown_end
             THEN [can |-> TRUE, remaining |-> NoMinutes]
             ELSE [can |-> FALSE,
                   remaining |-> (cooldown_end - now) \div TicksPerMinute]

\* can_assign that forgets to add the cooldown to the completion time
CanAssignNoCooldown(file, now) ==
    IF file.kind # "record"
    THEN [can |-> TRUE, remaining |-> NoMinutes]
    ELSE LET cooldown_end == file.timestamp
         IN  IF now >= cooldown_end
             THEN [can |-> TRUE, remaining |-> NoMinutes]
             ELSE [can |-> FALSE,
                   remaining |-> (cooldown_end - now) \div TicksPerMinute]

\* CooldownManager.can_assign: (can_assign, minutes_remaining)
CanAssign(file, now) ==
    IF file.kind = "absent"
    THEN [can |-> TRUE, remaining |-> NoMinutes]
    ELSE IF file.kind = "unreadable"
    THEN [can |-> TRUE, remaining |-> NoMinutes]        \* the bare except
    ELSE LET cooldown_end == file.timestamp + CooldownMinutes * TicksPerMinute
         IN  IF now >= cooldown_end
             THEN [can |-> TRUE, remaining |-> NoMinutes]
             ELSE [can |-> FALSE,
                   remaining |-> (cooldown_end - now) \div TicksPerMinute]

\* CooldownManager.record_completion: overwrites the single record
RecordCompletion(issue_id, now) ==
    [kind |-> "record", issue_id |-> issue_id, timestamp |-> now]

\* ---------------------------------------------------------- ReviewTracker
IsReviewDone(trk, pr_number) == pr_number \in DOMAIN trk

MarkReviewDone(trk, pr_number, issue_id) ==
    [p \in (DOMAIN trk) \cup {pr_number} |->
        IF p = pr_number THEN issue_id ELSE trk[p]]

ClearPR(trk, pr_number) ==
    [p \in (DOMAIN trk) \ {pr_number} |-> trk[p]]

EmptyTracker == [p \in {} |-> 0]

\* ------------------------------------------ AutomationEngine status refresh
\* the reset that forgets to clear the PR reference
ClosedResetKeepsPR(item) == [item EXCEPT !.state = "QUEUED"]

\* PR was closed without merging - reset to queued, clear the PR reference
ClosedReset(item) == [item EXCEPT !.state = "QUEUED", !.pr_number = NoPR]

\* _update_item_status: issue is the issue lookup's result, pr the result of
\* the PR lookup the code makes (by number if the item has one, else by issue)
UpdateItemStatus(item, issue, pr) ==
    LET it1 == IF item.issue_number = NoIssue /\ issue # NoIssueInfo
               THEN [item EXCEPT !.issue_number = issue.number]
               ELSE item
        it2 == [it1 EXCEPT !.pr_number = pr.number]
    IN  IF issue = NoIssueInfo THEN item
        ELSE IF issue.state = "CLOSED" THEN [it1 EXCEPT !.state = "COMPLETED"]
        ELSE IF it1.state = "QUEUED" /\ issue.state # "IN_PROGRESS" THEN it1
        ELSE IF pr # NoPRInfo THEN
            IF pr.state = "MERGED" THEN [it2 EXCEPT !.state = "MERGED"]
            ELSE IF pr.state = "CLOSED" THEN ClosedReset(it2)
            ELSE IF pr.state = "APPROVED" THEN [it2 EXCEPT !.state = "APPROVED"]
            ELSE IF pr.state = "CHANGES_REQUESTED"
                 THEN IF it2.state \notin {"APPLYING_CHANGES"}
                      THEN [it2 EXCEPT !.state = "CHANGES_REQUESTED"] ELSE it2
            ELSE IF pr.state = "REVIEW_REQUESTED"
                 THEN IF it2.state \notin {"REVIEWING", "APPLYING_CHANGES"}
                      THEN [it2 EXCEPT !.state = "REVIEW_REQUESTED"] ELSE it2
            ELSE IF pr.state = "DRAFT" THEN [it2 EXCEPT !.state = "PR_OPEN"]
            ELSE IF pr.reviewers
                 THEN IF it2.state \notin {"REVIEWING", "APPLYING_CHANGES"}
                      THEN [it2 EXCEPT !.state = "REVIEW_REQUESTED"] ELSE it2
            ELSE IF it2.state \notin {"REVIEW_REQUESTED", "REVIEWING",
                                      "CHANGES_REQUESTED", "APPLYING_CHANGES"}
                 THEN [it2 EXCEPT !.state = "PR_OPEN"] ELSE it2
        ELSE IF issue.state = "IN_PROGRESS" THEN [it1 EXCEPT !.state = "ASSIGNED"]
        ELSE it1

\* the issue lookup of _update_item_status: by number, else by title search
IssueLookup(i) == IssueInfos(i)

\* the check that forgets that a closed issue needs no PR lookup
RefreshLooksUpPRWhenClosed(item, issue) ==
    /\ issue # NoIssueInfo
    /\ ~(item.state = "QUEUED" /\ issue.state # "IN_PROGRESS")

\* does _update_item_status reach its PR lookup?
RefreshLooksUpPR(item, issue) ==
    /\ issue # NoIssueInfo
    /\ issue.state # "CLOSED"
    /\ ~(item.state = "QUEUED" /\ issue.state # "IN_PROGRESS")

\* which PR lookup _update_item_status makes
RefreshLookupKind(item, issue) ==
    IF ~RefreshLooksUpPR(item, issue) THEN "none"
    ELSE IF item.pr_number # NoPR THEN "get_pr_by_number"
    ELSE "get_pr_by_issue"

\* the PRInfo fields _update_item_status reads: number, state, reviewers
ReadByRefresh(pr) == [pr EXCEPT !.is_draft = FALSE, !.copilot_is_working = FALSE]

\* the lookup that searches by issue even for an item that holds a PR number
RefreshPRLookupAlwaysSearches(item, issue) ==
    IF ~RefreshLooksUpPR(item, issue) THEN {NoPRInfo}
    ELSE {ReadByRefresh(p) : p \in GetPRByIssue}

\* the PR lookup of _update_item_status
RefreshPRLookup(item, issue) ==
    IF ~RefreshLooksUpPR(item, issue) THEN {NoPRInfo}
    ELSE IF item.pr_number # NoPR
    THEN {ReadByRefresh(p) : p \in GetPRByNumber(item.pr_number)}
    ELSE {ReadByRefresh(p) : p \in GetPRByIssue}

\* ------------------------------------------- daemon: per-item processing
\* one call made by a handler: Agent Control Service calls and record_completion
Call(op, arg, ok) == [op |-> op, arg |-> arg, ok |-> ok]

ServiceOps == {"assign_issue_to_copilot", "request_review_from_copilot",
               "comment_apply_changes", "mark_pr_ready_for_review", "merge_pr"}

\* what a handler leaves behind
Result(w, trk, cdf, calls, action) ==
    [item |-> w.item, last_action |-> w.last_action, tracker |-> trk,
     cooldownFile |-> cdf, calls |-> calls, action |-> action]

\* the handler returns without touching item.last_action
Untouched(item) == [item |-> item, last_action |-> ""]

\* item.last_action = text; item.last_action_time = datetime.now()
Acted(item, text) == [item |-> item, last_action |-> text]

\* "Assigned" in action / "cooldown started" in action
ContainsAssigned(action) == action = "Assigned issue to Copilot"
ContainsCooldownStarted(action) ==
    action \in {"Merged PR - cooldown started",
                "Merged PR - after approval - cooldown started",
                "Merged PR - review cycle complete (skip_final_review enabled) - cooldown started"}

\* _process_item_with_cooldown, the branch taken when the PR has a
\* loop-breaker entry (review_tracker.is_review_done)
ReviewDoneBranch(i, pr, ok) ==
    LET item == queue[i]
        pn == item.pr_number
        approved == [item EXCEPT !.state = "APPROVED"]
        merge_reason == IF pr.state = "APPROVED" THEN "after approval"
                        ELSE "review cycle complete (skip_final_review enabled)"
    IN  IF pr = NoPRInfo
        THEN Result(Untouched(item), tracker, cooldownFile, <<>>, "")
        ELSE IF pr.is_draft
        THEN IF ok
             THEN Result(Acted(item, "Marked PR as ready for review"), tracker,
                         cooldownFile,
                         <<Call("mark_pr_ready_for_review", pn, TRUE)>>,
                         "Marked PR as ready for review (review cycle complete)")
             ELSE Result(Untouched(item), tracker, cooldownFile,
                         <<Call("mark_pr_ready_for_review", pn, FALSE)>>, "")
        ELSE IF pr.state = "APPROVED" \/ item.state = "APPROVED" \/ cfg.skip_final_review
        THEN IF cfg.auto_merge
             THEN IF ok
                  THEN Result(Acted([approved EXCEPT !.state = "MERGED"],
                                    IF pr.state = "APPROVED"
                                    THEN "Merged PR (after approval)"
                                    ELSE "Merged PR (review cycle complete (skip_final_review enabled))"),
                              ClearPR(tracker, pn),
                              RecordCompletion(i, clock),
                              <<Call("merge_pr", pn, TRUE),
                                Call("record_completion", i, TRUE)>>,
                              IF pr.state = "APPROVED"
                              THEN "Merged PR - after approval - cooldown started"
                              ELSE "Merged PR - review cycle complete (skip_final_review enabled) - cooldown started")
                  ELSE Result(Untouched(approved), tracker, cooldownFile,
                              <<Call("merge_pr", pn, FALSE)>>, "")
             ELSE Result(Untouched(approved), tracker, cooldownFile, <<>>, "")
        ELSE IF item.state = "REVIEWING"
        THEN Result(Untouched(item), tracker, cooldownFile, <<>>, "")
        ELSE IF ok
        THEN Result(Acted([item EXCEPT !.state = "REVIEWING"],
                          "Requested final Copilot review for approval"),
                    tracker, cooldownFile,
                    <<Call("request_review_from_copilot", pn, TRUE)>>,
                    "Requested final review to get approval")
        ELSE Result(Untouched(item), tracker, cooldownFile,
                    <<Call("request_review_from_copilot", pn, FALSE)>>, "")

\* the guard without the check for active items
AssignGuardIgnoresActive(i, ca) ==
    /\ ca
    /\ \A j \in 1..(i - 1) : queue[j].state # "QUEUED"
    /\ queue[i].issue_number # NoIssue

\* the guard that takes any queued item, not the first one
AssignGuardAnyQueued(i, ca) ==
    /\ ca
    /\ \A j \in DOMAIN queue : queue[j].state \notin InFlightStates
    /\ queue[i].issue_number # NoIssue

\* the guard that only looks at the issue number
AssignGuardIssueOnly(i, ca) == queue[i].issue_number # NoIssue

\* the assignment guard of the QUEUED branch: cooldown allows, the item is the
\* first queued one, nothing is active, and the issue number is known
AssignGuard(i, ca) ==
    /\ ca
    /\ \A j \in 1..(i - 1) : queue[j].state # "QUEUED"
    /\ \A j \in DOMAIN queue : queue[j].state \notin InFlightStates
    /\ queue[i].issue_number # NoIssue

\* the handler returns None without a call
NoAction(i) == Result(Untouched(queue[i]), tracker, cooldownFile, <<>>, "")

\* State: PR_OPEN (not draft) -> request review from Copilot
PROpenBranch(i, pr, ok) ==
    LET item == queue[i]
        pn == item.pr_number
    IN  IF pr # NoPRInfo /\ pr.state # "DRAFT" /\ ~pr.reviewers
        THEN IF ok
             THEN Result(Acted([item EXCEPT !.state = "REVIEW_REQUESTED"],
                               "Requested Copilot review"),
                         tracker, cooldownFile,
                         <<Call("request_review_from_copilot", pn, TRUE)>>,
                         "Requested Copilot review for PR")
             ELSE Result(Untouched(item), tracker, cooldownFile,
                         <<Call("request_review_from_copilot", pn, FALSE)>>, "")
        ELSE NoAction(i)

\* State: Review requested -> reassign to Copilot
ReviewRequestedBranch(i, ok) ==
    LET item == queue[i]
        pn == item.pr_number
    IN  IF ok
        THEN Result(Acted([item EXCEPT !.state = "REVIEWING"],
                          "Reassigned review to Copilot"),
                    tracker, cooldownFile,
                    <<Call("request_review_from_copilot", pn, TRUE)>>,
                    "Reassigned review of PR to Copilot")
        ELSE Result(Untouched(item), tracker, cooldownFile,
                    <<Call("request_review_from_copilot", pn, FALSE)>>, "")

\* the branch moving straight to APPROVED once the comment is posted
ChangesRequestedBranchApproves(i, ok) ==
    LET item == queue[i]
        pn == item.pr_number
    IN  IF ok
        THEN Result(Acted([item EXCEPT !.state = "APPROVED"],
                          "Commented @copilot apply changes"),
                    MarkReviewDone(tracker, pn, i), cooldownFile,
                    <<Call("comment_apply_changes", pn, TRUE)>>,
                    "Told Copilot to apply changes on PR")
        ELSE Result(Untouched(item), tracker, cooldownFile,
                    <<Call("comment_apply_changes", pn, FALSE)>>, "")

\* State: Changes requested -> comment to apply, mark the review as done
ChangesRequestedBranch(i, ok) ==
    LET item == queue[i]
        pn == item.pr_number
    IN  IF ok
        THEN Result(Acted([item EXCEPT !.state = "APPLYING_CHANGES"],
                          "Commented @copilot apply changes"),
                    MarkReviewDone(tracker, pn, i), cooldownFile,
                    <<Call("comment_apply_changes", pn, TRUE)>>,
                    "Told Copilot to apply changes on PR")
        ELSE Result(Untouched(item), tracker, cooldownFile,
                    <<Call("comment_apply_changes", pn, FALSE)>>, "")

\* the branch that merges without looking at the draft flag
ApprovedBranchMergesDraft(i, pr, ok) ==
    LET item == queue[i]
        pn == item.pr_number
    IN  IF pr = NoPRInfo THEN NoAction(i)
        ELSE IF ok
        THEN Result(Acted([item EXCEPT !.state = "MERGED"], "Merged PR"),
                    tracker, RecordCompletion(i, clock),
                    <<Call("merge_pr", pn, TRUE),
                      Call("record_completion", i, TRUE)>>,
                    "Merged PR - cooldown started")
        ELSE Result(Untouched(item), tracker, cooldownFile,
                    <<Call("merge_pr", pn, FALSE)>>, "")

\* State: Approved -> mark ready (if draft), then merge and start the cooldown
ApprovedBranch(i, pr, ok) ==
    LET item == queue[i]
        pn == item.pr_number
    IN  IF pr = NoPRInfo THEN NoAction(i)
        ELSE IF pr.is_draft
        THEN IF ok
             THEN Result(Acted(item, "Marked PR ready for review"),
                         tracker, cooldownFile,
                         <<Call("mark_pr_ready_for_review", pn, TRUE)>>,
                         "Marked PR as ready for review")
             ELSE Result(Untouched(item), tracker, cooldownFile,
                         <<Call("mark_pr_ready_for_review", pn, FALSE)>>, "")
        ELSE IF ok
        THEN Result(Acted([item EXCEPT !.state = "MERGED"], "Merged PR"),
                    tracker, RecordCompletion(i, clock),
                    <<Call("merge_pr", pn, TRUE),
                      Call("record_completion", i, TRUE)>>,
                    "Merged PR - cooldown started")
        ELSE Result(Untouched(item), tracker, cooldownFile,
                    <<Call("merge_pr", pn, FALSE)>>, "")

\* State: Queued -> assign to Copilot, with the cooldown
QueuedBranch(i, ca, ok) ==
    LET item == queue[i]
    IN  IF AssignGuard(i, ca)
        THEN IF ok
             THEN Result(Acted([item EXCEPT !.state = "ASSIGNED"],
                               "Assigned to Copilot"),
                         tracker, cooldownFile,
                         <<Call("assign_issue_to_copilot", item.issue_number, TRUE)>>,
                         "Assigned issue to Copilot")
             ELSE Result(Untouched(item), tracker, cooldownFile,
                         <<Call("assign_issue_to_copilot", item.issue_number, FALSE)>>,
                         "")
        ELSE NoAction(i)

\* the handler without the check of the ReviewTracker
ProcessItemIgnoresTracker(i, ca, pr, ok) ==
    LET item == queue[i]
        pn == item.pr_number
    IN  IF item.state = "PR_OPEN" /\ pn # NoPR
        THEN PROpenBranch(i, pr, ok)
        ELSE IF item.state = "REVIEW_REQUESTED" /\ pn # NoPR
        THEN ReviewRequestedBranch(i, ok)
        ELSE IF item.state = "CHANGES_REQUESTED" /\ pn # NoPR
        THEN ChangesRequestedBranch(i, ok)
        ELSE IF item.state = "APPROVED" /\ pn # NoPR /\ cfg.auto_merge
        THEN ApprovedBranch(i, pr, ok)
        ELSE IF item.state = "QUEUED" /\ cfg.auto_assign_next
        THEN QueuedBranch(i, ca, ok)
        ELSE NoAction(i)

\* _process_item_with_cooldown(item, can_assign); pr is the result of the
\* get_pr_by_number call the handler makes (if any), ok that of its service call
ProcessItemWithCooldown(i, ca, pr, ok) ==
    LET item == queue[i]
        pn == item.pr_number
    IN  IF pn # NoPR /\ IsReviewDone(tracker, pn)
        THEN ReviewDoneBranch(i, pr, ok)
        ELSE IF item.state = "PR_OPEN" /\ pn # NoPR
        THEN PROpenBranch(i, pr, ok)
        ELSE IF item.state = "REVIEW_REQUESTED" /\ pn # NoPR
        THEN ReviewRequestedBranch(i, ok)
        ELSE IF item.state = "CHANGES_REQUESTED" /\ pn # NoPR
        THEN ChangesRequestedBranch(i, ok)
        ELSE IF item.state = "APPROVED" /\ pn # NoPR /\ cfg.auto_merge
        THEN ApprovedBranch(i, pr, ok)
        ELSE IF item.state = "QUEUED" /\ cfg.auto_assign_next
        THEN QueuedBranch(i, ca, ok)
        ELSE NoAction(i)

\* does the handler call get_pr_by_number for this item?
ProcessFetchesPR(item) ==
    /\ item.pr_number # NoPR
    /\ \/ IsReviewDone(tracker, item.pr_number)
       \/ item.state = "PR_OPEN"
       \/ item.state = "APPROVED" /\ cfg.auto_merge

ProcessPRLookup(item) ==
    IF ProcessFetchesPR(item) THEN GetPRByNumber(item.pr_number) ELSE {NoPRInfo}

\* ------------------------------------------------------ the daemon cycle
\* no _to_pr_info call is being followed step by step
NotClassifying == [stage |-> "none"]

\* start/stop are not followed: the daemon of this behaviour is already running
NoLifecycle == [stage |-> "none"]
NoStatusIO == [stage |-> "none"]

\* no add_event call is followed
NoHistory == [stage |-> "none"]

\* the service's side is not followed: every lookup can return anything
NoAgent == [stage |-> "none"]

NullItem == NewItem(NoIssue)

\* record of the last step
Did(op, i, old, issue, pr, calls, written) ==
    [op |-> op, idx |-> i, old |-> [state |-> old.state, pr_number |-> old.pr_number],
     issue |-> issue.state,
     lookup |-> IF op \in {"refresh", "refresh_raised"} THEN RefreshLookupKind(old, issue) ELSE "none",
     pr |-> pr, calls |-> calls, last_action |-> written]


NoStep == Did("init", 0, NullItem, NoIssueInfo, NoPRInfo, <<>>, "")

NoReturn == [can |-> FALSE, remaining |-> NoMinutes]

\* refreshed / scanned: items the cycle has refreshed / processed so far
NewCycle == [assigned |-> 0, queued_to_assigned |-> 0, refreshed |-> 0, scanned |-> 0]

\* defaults of auto_config.get(...) in _process_item_with_cooldown
DefaultConfig == [auto_assign_next |-> TRUE, auto_merge |-> TRUE,
                  skip_final_review |-> FALSE]

\* the default configuration and those that change one of its switches
Configs == {DefaultConfig,
            [DefaultConfig EXCEPT !.auto_assign_next = FALSE],
            [DefaultConfig EXCEPT !.auto_merge = FALSE],
            [DefaultConfig EXCEPT !.skip_final_review = TRUE]}

\* pull requests a lookup has just shown to be merged
SeenMerged(pr) == IF pr.state = "MERGED" THEN {pr.number} ELSE {}

\* AutomationDaemon.start: engine and queue built from the configuration,
\* tracker and cooldown record as left on disk
Init ==
    /\ classifier = NotClassifying
    /\ lifecycle = NoLifecycle
    /\ statusIO = NoStatusIO
    /\ workflow_history = NoHistory
    /\ agent = NoAgent
    /\ queue \in [Items -> {NewItem(NoIssue)} \cup {NewItem(n) : n \in Items}]
    /\ \A i \in Items : queue[i].issue_number \in {NoIssue, i}
    /\ tracker = EmptyTracker
    /\ cooldownFile = NoCooldownFile
    /\ clock = 0
    /\ cfg \in Configs
    /\ mergedPRs = {}
    /\ phase = "refresh"
    /\ idx = 1
    /\ can_assign = FALSE
    /\ cycle = NewCycle
    /\ last = NoStep
    /\ returned = NoReturn
    /\ allowed = FALSE

\* engine.refresh_status: one iteration of its loop over the queue
RefreshItem ==
    /\ UNCHANGED NotWorkflowVars
    /\ phase = "refresh"
    /\ \E issue \in IssueLookup(idx) :
       \E pr \in RefreshPRLookup(queue[idx], issue) :
          LET new == UpdateItemStatus(queue[idx], issue, pr) IN
          /\ queue' = [queue EXCEPT ![idx] = new]
          /\ mergedPRs' = mergedPRs \cup SeenMerged(pr)
          /\ cycle' = [cycle EXCEPT !.queued_to_assigned =
                          IF queue[idx].state = "QUEUED" /\ new.state = "ASSIGNED"
                          THEN @ + 1 ELSE @,
                                    !.refreshed = @ + 1]
          /\ last' = Did("refresh", idx, queue[idx], issue, pr, <<>>, "")
    /\ IF idx < QueueLen
       THEN idx' = idx + 1 /\ phase' = phase
       ELSE idx' = 1 /\ phase' = "check"
    /\ UNCHANGED <<tracker, cooldownFile, clock, cfg, can_assign, returned, allowed>>

\* _process_cycle: the cooldown check between the refresh and the scan
CheckCooldown ==
    /\ UNCHANGED NotWorkflowVars
    /\ phase = "check"
    /\ can_assign' = CanAssign(cooldownFile, clock).can
    /\ phase' = "scan"
    /\ last' = Did("can_assign", 0, NullItem, NoIssueInfo, NoPRInfo, <<>>, "")
    /\ UNCHANGED <<queue, tracker, cooldownFile, clock, cfg, mergedPRs, idx, cycle,
                   returned, allowed>>

\* _process_cycle: one iteration of the loop over the queue
ScanItem ==
    /\ UNCHANGED NotWorkflowVars
    /\ phase = "scan"
    /\ \E pr \in ProcessPRLookup(queue[idx]), ok \in BOOLEAN :
          LET r == ProcessItemWithCooldown(idx, can_assign, pr, ok) IN
          /\ queue' = [queue EXCEPT ![idx] = r.item]
          /\ tracker' = r.tracker
          /\ cooldownFile' = r.cooldownFile
          /\ mergedPRs' = mergedPRs \cup SeenMerged(pr) \cup
                          {c.arg : c \in {r.calls[k] : k \in DOMAIN r.calls} \cap
                                         {Call("merge_pr", n, TRUE) : n \in PRNumbers}}
          /\ can_assign' = IF ContainsAssigned(r.action) \/ ContainsCooldownStarted(r.action)
                           THEN FALSE ELSE can_assign
          /\ cycle' = [cycle EXCEPT
                         !.assigned = IF queue[idx].state = "QUEUED" /\ r.item.state = "ASSIGNED"
                                      THEN @ + 1 ELSE @,
                         !.queued_to_assigned =
                                      IF queue[idx].state = "QUEUED" /\ r.item.state = "ASSIGNED"
                                      THEN @ + 1 ELSE @,
                         !.scanned = @ + 1]
          /\ last' = Did("scan", idx, queue[idx], NoIssueInfo, pr, r.calls,
                          r.last_action)
    /\ IF idx < QueueLen
       THEN idx' = idx + 1 /\ phase' = phase
       ELSE idx' = 1 /\ phase' = "sleep"
    /\ UNCHANGED <<clock, cfg, returned, allowed>>

\* the service calls that let an exception other than GithubException escape
RaisingOps == {"comment_apply_changes", "merge_pr"}

\* the calls a handler has made when the first of them raises
CallsUntilRaise(calls) ==
    LET raising == {k \in DOMAIN calls : calls[k].op \in RaisingOps /\ ~calls[k].ok}
        first == CHOOSE k \in raising : \A j \in raising : k <= j
    IN  SubSeq(calls, 1, first)

\* _update_item_status raises: get_pr_by_issue has no exception handler.  The
\* exception leaves refresh_status and _process_cycle and is caught by
\* _run_loop, which goes to sleep: the rest of the cycle is skipped.
RefreshRaises ==
    /\ UNCHANGED NotWorkflowVars
    /\ phase = "refresh"
    /\ \E issue \in IssueLookup(idx) :
          /\ RefreshLookupKind(queue[idx], issue) = "get_pr_by_issue"
          /\ queue' = [queue EXCEPT ![idx].issue_number =
                          IF @ = NoIssue THEN issue.number ELSE @]
          /\ last' = Did("refresh_raised", idx, queue[idx], issue, NoPRInfo, <<>>, "")
    /\ phase' = "sleep"
    /\ idx' = 1
    /\ UNCHANGED <<tracker, cooldownFile, clock, cfg, mergedPRs, can_assign, cycle,
                   returned, allowed>>

\* _process_item_with_cooldown raises in a service call: what the handler
\* did before the call stays, the rest of the cycle is skipped
ScanRaises ==
    /\ UNCHANGED NotWorkflowVars
    /\ phase = "scan"
    /\ \E pr \in ProcessPRLookup(queue[idx]) :
          LET r == ProcessItemWithCooldown(idx, can_assign, pr, FALSE) IN
          /\ \E c \in {r.calls[k] : k \in DOMAIN r.calls} :
                 c.op \in RaisingOps /\ ~c.ok
          /\ queue' = [queue EXCEPT ![idx] = r.item]
          /\ tracker' = r.tracker
          /\ cooldownFile' = r.cooldownFile
          /\ mergedPRs' = mergedPRs \cup SeenMerged(pr)
          /\ last' = Did("scan_raised", idx, queue[idx], NoIssueInfo, pr,
                          CallsUntilRaise(r.calls), r.last_action)
    /\ phase' = "sleep"
    /\ idx' = 1
    /\ UNCHANGED <<clock, cfg, can_assign, cycle, returned, allowed>>

\* _run_loop: the sleep is over, the next cycle starts
NextCycle ==
    /\ UNCHANGED NotWorkflowVars
    /\ phase = "sleep"
    /\ phase' = "refresh"
    /\ idx' = 1
    /\ cycle' = NewCycle
    /\ last' = Did("cycle", 0, NullItem, NoIssueInfo, NoPRInfo, <<>>, "")
    /\ UNCHANGED <<queue, tracker, cooldownFile, clock, cfg, mergedPRs, can_assign,
                   returned, allowed>>

\* time passes while the daemon sleeps between two cycles
Tick ==
    /\ UNCHANGED NotWorkflowVars
    /\ phase = "sleep"
    /\ clock < MaxClock
    /\ clock' = clock + 1
    /\ last' = Did("tick", 0, NullItem, NoIssueInfo, NoPRInfo, <<>>, "")
    /\ UNCHANGED <<queue, tracker, cooldownFile, cfg, mergedPRs, phase, idx,
                   can_assign, cycle, returned, allowed>>

Next ==
    \/ RefreshItem \/ CheckCooldown \/ ScanItem \/ NextCycle \/ Tick
    \/ RefreshRaises \/ ScanRaises

Spec == Init /\ [][Next]_vars

\* ------------------------------------- the CooldownManager driven alone
\* any interleaving of clock advances, record_completion and can_assign calls
CooldownVars == <<queue, tracker, cfg, mergedPRs, phase, idx, can_assign, cycle>>

InitCooldown ==
    /\ classifier = NotClassifying
    /\ lifecycle = NoLifecycle
    /\ statusIO = NoStatusIO
    /\ workflow_history = NoHistory
    /\ agent = NoAgent
    /\ queue = [i \in Items |-> NewItem(i)]
    /\ tracker = EmptyTracker
    /\ cooldownFile \in {NoCooldownFile, UnreadableCooldownFile}
    /\ clock = 0
    /\ cfg = DefaultConfig
    /\ mergedPRs = {}
    /\ phase = "cooldown"
    /\ idx = 1
    /\ can_assign = FALSE
    /\ cycle = NewCycle
    /\ last = NoStep
    /\ returned = NoReturn
    /\ allowed = FALSE

CallCanAssign ==
    /\ UNCHANGED NotWorkflowVars
    /\ returned' = CanAssign(cooldownFile, clock)
    /\ allowed' = (allowed \/ returned'.can)
    /\ last' = Did("can_assign", 0, NullItem, NoIssueInfo, NoPRInfo, <<>>, "")
    /\ UNCHANGED <<cooldownFile, clock>>
    /\ UNCHANGED CooldownVars

CallRecordCompletion ==
    /\ UNCHANGED NotWorkflowVars
    /\ \E i \in Items :
          /\ cooldownFile' = RecordCompletion(i, clock)
          /\ last' = Did("record_completion", i, NullItem, NoIssueInfo, NoPRInfo,
                         <<>>, "")
    /\ allowed' = FALSE
    /\ UNCHANGED <<clock, returned>>
    /\ UNCHANGED CooldownVars

CooldownTick ==
    /\ UNCHANGED NotWorkflowVars
    /\ clock < MaxCooldownClock
    /\ clock' = clock + 1
    /\ last' = Did("tick", 0, NullItem, NoIssueInfo, NoPRInfo, <<>>, "")
    /\ UNCHANGED <<cooldownFile, returned, allowed>>
    /\ UNCHANGED CooldownVars

NextCooldown == CallCanAssign \/ CallRecordCompletion \/ CooldownTick

SpecCooldown == InitCooldown /\ [][NextCooldown]_vars

\* cooldownDuration in ticks
CooldownDuration == CooldownMinutes * TicksPerMinute

\* a completion record exists (and can be read)
HasRecord == cooldownFile.kind = "record"

\* C6: can_assign() returns true exactly when no completion record exists or
\* now >= completedAt + cooldownDuration, and false in every other case.
C6_CanAssignIff ==
    last.op = "can_assign" =>
        (returned.can <=> (~HasRecord \/ clock >= cooldownFile.timestamp + CooldownDuration))

C6_Witness ==
    /\ last.op = "can_assign"
    /\ HasRecord
    /\ clock = cooldownFile.timestamp + CooldownDuration
    /\ returned.can

\* C7: can_assign() is false immediately after record_completion, is true with
\* a record present only once now - completedAt >= cooldownDuration, and once
\* it has returned true it stays true until the next record_completion.
C7_CooldownMonotone ==
    /\ [][(last.op = "record_completion" /\ last'.op = "can_assign") => ~returned'.can]_vars
    /\ [][(allowed /\ last'.op = "can_assign") => returned'.can]_vars
    /\ []((last.op = "can_assign" /\ returned.can /\ HasRecord)
            => clock - cooldownFile.timestamp >= CooldownDuration)

C7_Witness ==
    /\ last.op = "can_assign"
    /\ HasRecord
    /\ allowed
    /\ returned.can
    /\ clock > cooldownFile.timestamp + CooldownDuration

\* ------------------------------------------ the engine's own action loop
\* _get_next_action(item): pr is the result of its get_pr_by_number call (if
\* any), ok that of the service call it makes
GetNextAction(i, pr, ok) ==
    LET item == queue[i]
        pn == item.pr_number
    IN  IF item.state = "REVIEW_REQUESTED" /\ pn # NoPR
        THEN IF ok
             THEN Result(Acted([item EXCEPT !.state = "REVIEWING"],
                               "Reassigned review to Copilot"),
                         tracker, cooldownFile,
                         <<Call("request_review_from_copilot", pn, TRUE)>>,
                         "Reassigned review of PR to Copilot")
             ELSE Result(Untouched(item), tracker, cooldownFile,
                         <<Call("request_review_from_copilot", pn, FALSE)>>, "")
        ELSE IF item.state = "REVIEWING" /\ pn # NoPR
        THEN IF pr = NoPRInfo \/ pr.copilot_is_working THEN NoAction(i)
             ELSE IF pr.state = "CHANGES_REQUESTED"
             THEN Result(Acted([item EXCEPT !.state = "CHANGES_REQUESTED"],
                               "Review completed with changes requested"),
                         tracker, cooldownFile, <<>>,
                         "PR review completed - changes requested")
             ELSE IF pr.state = "APPROVED"
             THEN Result(Acted([item EXCEPT !.state = "APPROVED"],
                               "Review completed and approved"),
                         tracker, cooldownFile, <<>>,
                         "PR review completed - approved")
             ELSE Result(Acted([item EXCEPT !.state = "APPROVED"],
                               "Review completed, no changes needed"),
                         tracker, cooldownFile,
                         IF pr.is_draft
                         THEN <<Call("mark_pr_ready_for_review", pn, ok)>> ELSE <<>>,
                         "PR review completed - no changes needed, ready for merge")
        ELSE IF item.state = "CHANGES_REQUESTED" /\ pn # NoPR
        THEN IF ok
             THEN Result(Acted([item EXCEPT !.state = "APPLYING_CHANGES"],
                               "Commented @copilot apply changes"),
                         tracker, cooldownFile,
                         <<Call("comment_apply_changes", pn, TRUE)>>,
                         "Told Copilot to apply changes on PR")
             ELSE Result(Untouched(item), tracker, cooldownFile,
                         <<Call("comment_apply_changes", pn, FALSE)>>, "")
        ELSE IF item.state = "APPLYING_CHANGES" /\ pn # NoPR
        THEN IF pr = NoPRInfo \/ pr.copilot_is_working THEN NoAction(i)
             ELSE IF pr.state = "APPROVED"
             THEN Result(Acted([item EXCEPT !.state = "APPROVED"],
                               "Changes applied and approved"),
                         tracker, cooldownFile, <<>>,
                         "PR changes applied and approved")
             ELSE IF pr.state \notin {"CHANGES_REQUESTED"}
             THEN IF cfg.skip_final_review
                  THEN Result(Acted([item EXCEPT !.state = "APPROVED"],
                                    "Changes applied, marked ready for merge"),
                              tracker, cooldownFile,
                              IF pr.is_draft
                              THEN <<Call("mark_pr_ready_for_review", pn, ok)>>
                              ELSE <<>>,
                              "PR changes applied by Copilot, ready for merge")
                  ELSE IF ok
                  THEN Result(Acted([item EXCEPT !.state = "REVIEWING"],
                                    "Requested follow-up review after changes applied"),
                              tracker, cooldownFile,
                              <<Call("request_review_from_copilot", pn, TRUE)>>,
                              "Requested follow-up review on PR after changes applied")
                  ELSE Result(Untouched(item), tracker, cooldownFile,
                              <<Call("request_review_from_copilot", pn, FALSE)>>, "")
             ELSE NoAction(i)
        ELSE IF item.state = "APPROVED" /\ pn # NoPR /\ cfg.auto_merge
        THEN IF pr = NoPRInfo THEN NoAction(i)
             ELSE IF pr.is_draft
             THEN Result(Acted(item, "Marked PR ready for review"),
                         tracker, cooldownFile,
                         <<Call("mark_pr_ready_for_review", pn, ok)>>,
                         "Marked PR as ready for review")
             ELSE IF ok
             THEN Result(Acted([item EXCEPT !.state = "MERGED"], "Merged PR"),
                         tracker, cooldownFile,
                         <<Call("merge_pr", pn, TRUE)>>, "Merged PR")
             ELSE Result(Untouched(item), tracker, cooldownFile,
                         <<Call("merge_pr", pn, FALSE)>>, "")
        ELSE IF item.state = "QUEUED" /\ cfg.auto_assign_next
        THEN IF AssignGuard(i, TRUE)
             THEN IF ok
                  THEN Result(Acted([item EXCEPT !.state = "ASSIGNED"],
                                    "Assigned to Copilot"),
                              tracker, cooldownFile,
                              <<Call("assign_issue_to_copilot", item.issue_number, TRUE)>>,
                              "Assigned issue to Copilot")
                  ELSE Result(Untouched(item), tracker, cooldownFile,
                              <<Call("assign_issue_to_copilot", item.issue_number, FALSE)>>,
                              "")
             ELSE NoAction(i)
        ELSE NoAction(i)

\* the get_pr_by_number call of _get_next_action
EnginePRLookup(item) ==
    IF /\ item.pr_number # NoPR
       /\ \/ item.state \in {"REVIEWING", "APPLYING_CHANGES"}
          \/ item.state = "APPROVED" /\ cfg.auto_merge
    THEN GetPRByNumber(item.pr_number)
    ELSE {NoPRInfo}

\* a dashboard process: its own engine, the cooldown record as the daemon left it
InitEngine ==
    /\ classifier = NotClassifying
    /\ lifecycle = NoLifecycle
    /\ statusIO = NoStatusIO
    /\ workflow_history = NoHistory
    /\ agent = NoAgent
    /\ queue \in [Items -> {NewItem(NoIssue)} \cup {NewItem(n) : n \in Items}]
    /\ \A i \in Items : queue[i].issue_number \in {NoIssue, i}
    /\ tracker = EmptyTracker
    /\ cooldownFile \in {NoCooldownFile, RecordCompletion(1, 0)}
    /\ clock = 0
    /\ cfg \in Configs
    /\ mergedPRs = {}
    /\ phase = "run_once"
    /\ idx = 1
    /\ can_assign = FALSE
    /\ cycle = NewCycle
    /\ last = NoStep
    /\ returned = NoReturn
    /\ allowed = FALSE

\* refresh_status as called by run_once and by process_next_action
EngineRefreshItem ==
    /\ UNCHANGED NotWorkflowVars
    /\ phase \in {"run_once", "next_action"}
    /\ \E issue \in IssueLookup(idx) :
       \E pr \in RefreshPRLookup(queue[idx], issue) :
          /\ queue' = [queue EXCEPT ![idx] = UpdateItemStatus(queue[idx], issue, pr)]
          /\ mergedPRs' = mergedPRs \cup SeenMerged(pr)
          /\ last' = Did("refresh", idx, queue[idx], issue, pr, <<>>, "")
    /\ IF idx < QueueLen
       THEN idx' = idx + 1 /\ phase' = phase
       ELSE idx' = 1 /\ phase' = IF phase = "run_once" THEN "next_action" ELSE "act"
    /\ UNCHANGED <<tracker, cooldownFile, clock, cfg, can_assign, cycle, returned,
                   allowed>>

\* process_next_action: one iteration of its loop over the queue; an action
\* ends the call and run_once calls process_next_action again
EngineAct ==
    /\ UNCHANGED NotWorkflowVars
    /\ phase = "act"
    /\ \E pr \in EnginePRLookup(queue[idx]), ok \in BOOLEAN :
          LET r == GetNextAction(idx, pr, ok) IN
          /\ queue' = [queue EXCEPT ![idx] = r.item]
          /\ mergedPRs' = mergedPRs \cup SeenMerged(pr) \cup
                          {c.arg : c \in {r.calls[k] : k \in DOMAIN r.calls} \cap
                                         {Call("merge_pr", n, TRUE) : n \in PRNumbers}}
          /\ last' = Did("act", idx, queue[idx], NoIssueInfo, pr, r.calls,
                         r.last_action)
          /\ IF r.action # ""
             THEN idx' = 1 /\ phase' = "next_action"
             ELSE IF idx < QueueLen
             THEN idx' = idx + 1 /\ phase' = phase
             ELSE idx' = 1 /\ phase' = "done"
    /\ UNCHANGED <<tracker, cooldownFile, clock, cfg, can_assign, cycle, returned,
                   allowed>>

\* run_once has returned; time passes until it is called again
EngineRunOnce ==
    /\ UNCHANGED NotWorkflowVars
    /\ phase = "done"
    /\ phase' = "run_once"
    /\ clock' \in {clock, IF clock < MaxClock THEN clock + 1 ELSE clock}
    /\ last' = Did("run_once", 0, NullItem, NoIssueInfo, NoPRInfo, <<>>, "")
    /\ UNCHANGED <<queue, tracker, cooldownFile, cfg, mergedPRs, idx, can_assign,
                   cycle, returned, allowed>>

NextEngine == EngineRefreshItem \/ EngineAct \/ EngineRunOnce

SpecEngine == InitEngine /\ [][NextEngine]_vars

\* run_once is sequential code: its next statement is always executed
SpecEngineFair == SpecEngine /\ WF_vars(NextEngine)

\* ------------------------------------ the classifier (_to_pr_info) by stages
\* Python values the classifier compares and subtracts
Str(t) == [type |-> "str", t |-> t]
Datetime(t) == [type |-> "datetime", t |-> t]
PyNone == [type |-> "None", t |-> 0]

\* datetime - x: a timedelta when x is a datetime, TypeError otherwise
DatetimeMinus(a, b) ==
    IF a.type = "datetime" /\ b.type = "datetime"
    THEN [raised |-> FALSE, seconds |-> (a.t - b.t) * SecondsPerTick]
    ELSE [raised |-> TRUE, seconds |-> 0]

SeqsUpTo(S, n) == UNION {[1..k -> S] : k \in 0..n}

\* a signal source's answer: the fetch failed, or a chronological list
FetchFailed == [ok |-> FALSE, list |-> <<>>]
Fetched(list) == [ok |-> TRUE, list |-> list]

\* GET .../issues/{n}/timeline; the k-th event has created_at = the string of
\* time k (the JSON body carries ISO strings)
TimelineEventTypes == {"copilot_work_started", "copilot_work_finished", "review_requested"}
TimelineResponses ==
    {FetchFailed} \cup {Fetched(l) : l \in SeqsUpTo(TimelineEventTypes, MaxEvents)}

\* pr.get_issue_comments(); the k-th comment has created_at = the datetime k
CommentKinds == {"apply", "finished", "other"}
CommentResponses ==
    {FetchFailed} \cup {Fetched(l) : l \in SeqsUpTo(CommentKinds, MaxComments)}

LastIndex(list, x) ==
    LET ks == {k \in DOMAIN list : list[k] = x}
    IN  IF ks = {} THEN 0 ELSE CHOOSE k \in ks : \A j \in ks : j <= k

\* the loop over the timeline events: the last event of each type wins
TimelineScan(resp) ==
    LET at(ty) == IF LastIndex(resp.list, ty) = 0 THEN PyNone
                  ELSE Str(LastIndex(resp.list, ty))
    IN  IF ~resp.ok
        THEN [latest_work_started |-> PyNone, latest_work_finished |-> PyNone,
              latest_review_requested |-> PyNone]
        ELSE [latest_work_started |-> at("copilot_work_started"),
              latest_work_finished |-> at("copilot_work_finished"),
              latest_review_requested |-> at("review_requested")]

\* what DETECTION 1 leaves in the flags (now: datetime.now() of the grace check)
TimelineFlags(l, now) ==
    LET defaults == [copilot_is_working |-> FALSE, copilot_has_reviewed |-> FALSE,
                     copilot_work_just_finished |-> FALSE, now |-> 0]
    IN  IF l.latest_work_started = PyNone THEN defaults
        ELSE IF \/ l.latest_work_finished = PyNone
                \/ l.latest_work_started.t > l.latest_work_finished.t
        THEN [defaults EXCEPT !.copilot_is_working = TRUE]
        ELSE IF /\ l.latest_review_requested # PyNone
                /\ l.latest_work_finished.t > l.latest_review_requested.t
        THEN LET since == DatetimeMinus(Datetime(now), l.latest_work_finished)
             IN  \* a TypeError here is caught by the except of the block:
                 \* copilot_has_reviewed is already set, the grace flag is not
                 [copilot_is_working |-> FALSE, copilot_has_reviewed |-> TRUE,
                  copilot_work_just_finished |->
                      (~since.raised /\ since.seconds < GracePeriodSeconds),
                  now |-> now]
        ELSE defaults

\* a failed timeline fetch that is read as "the agent is working"
TimelineDetectionFailBlocks(resp, now) ==
    IF ~resp.ok
    THEN [copilot_is_working |-> TRUE, copilot_has_reviewed |-> FALSE,
          copilot_work_just_finished |-> FALSE, now |-> 0]
    ELSE TimelineFlags(TimelineScan(resp), now)

\* DETECTION 1: timeline events
TimelineDetection(resp, now) == TimelineFlags(TimelineScan(resp), now)

\* the loop over the issue comments: the last comment of each kind wins
CommentScan(resp) ==
    LET at(kind) == IF LastIndex(resp.list, kind) = 0 THEN PyNone
                    ELSE Datetime(LastIndex(resp.list, kind))
    IN  IF ~resp.ok
        THEN [has_apply_changes_request |-> FALSE, apply_changes_request_time |-> PyNone,
              copilot_finished_work_time |-> PyNone]
        ELSE [has_apply_changes_request |-> at("apply") # PyNone,
              apply_changes_request_time |-> at("apply"),
              copilot_finished_work_time |-> at("finished")]

\* the decision that accepts a finished announcement older than the request
CommentDecisionAnyFinished(c, working) ==
    IF c.has_apply_changes_request /\ c.apply_changes_request_time # PyNone
    THEN ~(c.copilot_finished_work_time # PyNone)
    ELSE working

\* DETECTION 2: the decision on copilot_is_working after the comment loop
CommentDecision(c, working) ==
    IF c.has_apply_changes_request /\ c.apply_changes_request_time # PyNone
    THEN ~(/\ c.copilot_finished_work_time # PyNone
           /\ c.copilot_finished_work_time.t > c.apply_changes_request_time.t)
    ELSE working

\* pr.get_reviews(): state of the latest review, and whether some review body
\* carries the agent's signature
ReviewResponses ==
    {r \in [latest : {"NONE", "APPROVED", "CHANGES_REQUESTED", "COMMENTED"},
            signature : BOOLEAN] : (r.latest = "NONE") => ~r.signature}

\* pr.get_review_comments(): the fetch failed, or whether a comment sits on the
\* latest commit
\* latest commit; they are fetched only when copilot_has_reviewed
ReviewCommentResponses ==
    {"not_fetched", "failed", "none_on_latest_commit", "on_latest_commit"}

\* pr.merged, pr.state == "closed", pr.draft
PRAttributes ==
    {a \in [merged : BOOLEAN, closed : BOOLEAN, draft : BOOLEAN] : a.merged => a.closed}

NoLocals ==
    [latest_work_started |-> PyNone, latest_work_finished |-> PyNone,
     latest_review_requested |-> PyNone, now |-> 0,
     has_apply_changes_request |-> FALSE, apply_changes_request_time |-> PyNone,
     copilot_finished_work_time |-> PyNone]

\* the flags as initialised at the top of _to_pr_info
InitialFacts ==
    [merged |-> FALSE, closed |-> FALSE, review_state |-> "NONE",
     copilot_has_reviewed |-> FALSE, has_pending_suggestions |-> FALSE,
     copilot_work_just_finished |-> FALSE, requested_reviewers |-> FALSE,
     draft |-> FALSE, copilot_is_working |-> FALSE]

NotFetched == Fetched(<<>>)

CallToPRInfo ==
    [stage |-> "timeline", timeline |-> NotFetched, comments |-> NotFetched,
     review_comments |-> "not_fetched", locals |-> NoLocals, facts |-> InitialFacts, state |-> "NONE"]

WorkflowFrame ==
    UNCHANGED <<queue, tracker, cooldownFile, clock, cfg, mergedPRs, phase, idx,
                can_assign, cycle, last, returned, allowed, workflow_history,
                agent>>

\* a classification followed from its first line
InitClassifier ==
    /\ queue = [i \in Items |-> NewItem(i)]
    /\ tracker = EmptyTracker
    /\ cooldownFile = NoCooldownFile
    /\ clock = 0
    /\ cfg = DefaultConfig
    /\ mergedPRs = {}
    /\ phase = "classifier"
    /\ idx = 1
    /\ can_assign = FALSE
    /\ cycle = NewCycle
    /\ last = NoStep
    /\ returned = NoReturn
    /\ allowed = FALSE
    /\ classifier = CallToPRInfo
    /\ lifecycle = NoLifecycle
    /\ statusIO = NoStatusIO
    /\ workflow_history = NoHistory
    /\ agent = NoAgent

\* DETECTION 1 (lines 374-430)
ClsTimeline ==
    /\ classifier.stage = "timeline"
    /\ \E resp \in TimelineResponses :
       \E now \in Len(resp.list)..MaxNow :
          LET l == TimelineScan(resp)
              f == TimelineDetection(resp, now)
          IN  classifier' =
                [classifier EXCEPT
                   !.stage = "comments",
                   !.timeline = resp,
                   !.locals = [@ EXCEPT
                       !.latest_work_started = l.latest_work_started,
                       !.latest_work_finished = l.latest_work_finished,
                       !.latest_review_requested = l.latest_review_requested,
                       !.now = f.now],
                   !.facts = [@ EXCEPT
                       !.copilot_is_working = f.copilot_is_working,
                       !.copilot_has_reviewed = f.copilot_has_reviewed,
                       !.copilot_work_just_finished = f.copilot_work_just_finished]]
    /\ WorkflowFrame
    /\ UNCHANGED <<lifecycle, statusIO>>

\* DETECTION 2 (lines 447-489)
ClsComments ==
    /\ classifier.stage = "comments"
    /\ \E resp \in CommentResponses :
          LET c == CommentScan(resp) IN
          classifier' =
            [classifier EXCEPT
               !.stage = "reviews",
               !.timeline = NotFetched,
               !.comments = resp,
               !.locals = [@ EXCEPT
                   !.has_apply_changes_request = c.has_apply_changes_request,
                   !.apply_changes_request_time = c.apply_changes_request_time,
                   !.copilot_finished_work_time = c.copilot_finished_work_time],
               !.facts = [@ EXCEPT !.copilot_is_working =
                            CommentDecision(c, classifier.facts.copilot_is_working)]]
    /\ WorkflowFrame
    /\ UNCHANGED <<lifecycle, statusIO>>

\* a review comment on any commit counts as a pending suggestion
HasPendingSuggestionsAnyCommit(reviewed, rc) ==
    reviewed /\ rc \in {"none_on_latest_commit", "on_latest_commit"}

\* the loop over the review comments (lines 509-523): comments of an older
\* commit are skipped, the first one on the latest commit sets the flag; a
\* failed fetch leaves it unset
HasPendingSuggestions(reviewed, rc) ==
    reviewed /\ rc = "on_latest_commit"

\* reviews, pending suggestions, requested reviewers (lines 494-526)
ClsReviews ==
    /\ classifier.stage = "reviews"
    /\ \E rv \in ReviewResponses, rc \in ReviewCommentResponses, rr \in BOOLEAN :
          LET reviewed == classifier.facts.copilot_has_reviewed \/ rv.signature IN
          /\ (~reviewed => rc = "not_fetched")
          /\ (reviewed => rc # "not_fetched")
          /\ classifier' =
               [classifier EXCEPT
                  !.stage = "resolve",
                  !.comments = NotFetched,
                  !.review_comments = rc,
                  !.facts = [@ EXCEPT
                      !.review_state = rv.latest,
                      !.copilot_has_reviewed = reviewed,
                      !.has_pending_suggestions = HasPendingSuggestions(reviewed, rc),
                      !.requested_reviewers = rr]]
    /\ WorkflowFrame
    /\ UNCHANGED <<lifecycle, statusIO>>

\* final priority resolution and return (lines 528-598)
ClsResolve ==
    /\ classifier.stage = "resolve"
    /\ \E a \in PRAttributes :
          LET f == [classifier.facts EXCEPT !.merged = a.merged, !.closed = a.closed,
                                            !.draft = a.draft]
          IN  classifier' = [classifier EXCEPT !.stage = "returned", !.facts = f,
                                               !.state = ResolvePRState(f)]
    /\ WorkflowFrame
    /\ UNCHANGED <<lifecycle, statusIO>>

\* the next call of _to_pr_info
ClsNextCall ==
    /\ classifier.stage = "returned"
    /\ classifier' = CallToPRInfo
    /\ WorkflowFrame
    /\ UNCHANGED <<lifecycle, statusIO>>

NextClassifier == ClsTimeline \/ ClsComments \/ ClsReviews \/ ClsResolve \/ ClsNextCall

SpecClassifier == InitClassifier /\ [][NextClassifier]_vars

\* --------------------------------------- the daemon's start, loop and stop
\* processes that call AutomationDaemon().start(); process p has pid p
Procs == 1..NumProcs

\* a pid left in the PID file by a daemon of an earlier boot: no process has it
StalePid == 0

\* PID_FILE: absent, holding a pid, or holding text that is not a number
NoPidFile == [kind |-> "absent", pid |-> StalePid]
PidFile(p) == [kind |-> "pid", pid |-> p]
GarbagePidFile == [kind |-> "garbage", pid |-> StalePid]

\* STATUS_FILE: absent, or the last dictionary DaemonStatus.write stored
NoStatusFile == [kind |-> "absent", running |-> FALSE, by |-> StalePid]
StatusWrite(kind, running, p) == [kind |-> kind, running |-> running, by |-> p]

\* a process before it calls start()
NewProc == [pc |-> "idle", running |-> FALSE, slice |-> 0, cycles |-> 0,
            result |-> "none", signalled |-> FALSE]

\* the positions at which a process exists
LivePCs == {"unlink", "write_pid", "connect", "loop", "in_cycle", "sleep"}

\* os.kill(pid, 0) succeeds: a process with this pid exists
ProcessExists(pid) == pid \in Procs /\ lifecycle.proc[pid].pc \in LivePCs

\* os.kill succeeds whatever the pid file says
ProcessExistsAlways(pid) == TRUE

\* an is_running that takes every PID file for the lock of a running daemon
IsRunningTrustsFile(file) ==
    IF file.kind = "absent" THEN "false" ELSE "true"

\* is_running up to its except clause: "true" (the named process exists),
\* "false" (no PID file) or "stale" (ProcessLookupError / ValueError)
IsRunning(file) ==
    IF file.kind = "absent" THEN "false"
    ELSE IF file.kind = "garbage" THEN "stale"
    ELSE IF ProcessExists(file.pid) THEN "true"
    ELSE "stale"

\* _remove_pid: unlink the PID file if there is one, whoever wrote it
RemovePid(file) == NoPidFile

\* stop(): running flag down, status written, PID file removed
Stop(p) ==
    [lifecycle EXCEPT !.proc[p].running = FALSE,
                      !.statusFile = StatusWrite("stopped", FALSE, p),
                      !.pidFile = RemovePid(@)]

\* the last lifecycle step: who made it and what it found
NoLifecycleStep == [op |-> "none", p |-> StalePid, found |-> "none"]
LifecycleStep(op, p, found) == [op |-> op, p |-> p, found |-> found]

InitLifecycle ==
    /\ queue = [i \in Items |-> NewItem(i)]
    /\ tracker = EmptyTracker
    /\ cooldownFile = NoCooldownFile
    /\ clock = 0
    /\ cfg = DefaultConfig
    /\ mergedPRs = {}
    /\ phase = "lifecycle"
    /\ idx = 1
    /\ can_assign = FALSE
    /\ cycle = NewCycle
    /\ last = NoStep
    /\ returned = NoReturn
    /\ allowed = FALSE
    /\ classifier = NotClassifying
    /\ statusIO = NoStatusIO
    /\ workflow_history = NoHistory
    /\ agent = NoAgent
    /\ \E file \in {NoPidFile, PidFile(StalePid), GarbagePidFile} :
          lifecycle = [stage |-> "run", pidFile |-> file, statusFile |-> NoStatusFile,
                       proc |-> [p \in Procs |-> NewProc],
                       step |-> NoLifecycleStep]

\* start(), first statement: is_running() up to the unlink of a stale file
StartIsRunning(p) ==
    /\ lifecycle.proc[p].pc = "idle"
    /\ LET found == IsRunning(lifecycle.pidFile) IN
       lifecycle' = [lifecycle EXCEPT
                       !.proc[p].pc = CASE found = "true" -> "returned"
                                        [] found = "stale" -> "unlink"
                                        [] OTHER -> "write_pid",
                       !.proc[p].result = IF found = "true" THEN "False" ELSE @,
                       !.step = LifecycleStep("is_running", p, found)]
    /\ UNCHANGED <<classifier, statusIO>> /\ WorkflowFrame

\* is_running, except clause: PID_FILE.unlink() raises FileNotFoundError when
\* the file has gone meanwhile, and start() does not catch it
StartUnlinkStale(p) ==
    /\ lifecycle.proc[p].pc = "unlink"
    /\ lifecycle' =
         IF lifecycle.pidFile.kind = "absent"
         THEN [lifecycle EXCEPT !.proc[p].pc = "raised",
                                !.proc[p].result = "FileNotFoundError",
                                !.step = LifecycleStep("unlink", p, "absent")]
         ELSE [lifecycle EXCEPT !.proc[p].pc = "write_pid",
                                !.pidFile = NoPidFile,
                                !.step = LifecycleStep("unlink", p, lifecycle.pidFile.kind)]
    /\ UNCHANGED <<classifier, statusIO>> /\ WorkflowFrame

\* start(): _write_pid(), then the engine and the cooldown manager are built
StartWritePid(p) ==
    /\ lifecycle.proc[p].pc = "write_pid"
    /\ lifecycle' = [lifecycle EXCEPT !.proc[p].pc = "connect",
                                      !.pidFile = PidFile(p),
                                      !.step = LifecycleStep("write_pid", p, "none")]
    /\ UNCHANGED <<classifier, statusIO>> /\ WorkflowFrame

\* start(): engine.connect() fails (status written, PID file removed, False
\* returned) or succeeds (running flag up, the loop is entered)
StartConnect(p) ==
    /\ lifecycle.proc[p].pc = "connect"
    /\ \E ok \in BOOLEAN :
          lifecycle' =
            IF ok
            THEN [lifecycle EXCEPT !.proc[p].pc = "loop",
                                   !.proc[p].running = TRUE,
                                   !.step = LifecycleStep("connect", p, "ok")]
            ELSE [lifecycle EXCEPT !.proc[p].pc = "returned",
                                   !.proc[p].result = "False",
                                   !.statusFile = StatusWrite("connect_failed", FALSE, p),
                                   !.pidFile = RemovePid(@),
                                   !.step = LifecycleStep("connect", p, "failed")]
    /\ UNCHANGED <<classifier, statusIO>> /\ WorkflowFrame

\* _run_loop: the while test.  With the flag down the loop is left, stop()
\* runs and start() returns True.
LoopTest(p) ==
    /\ lifecycle.proc[p].pc = "loop"
    /\ lifecycle.proc[p].running => lifecycle.proc[p].cycles < MaxCycles
    /\ lifecycle' =
         IF lifecycle.proc[p].running
         THEN [lifecycle EXCEPT !.proc[p].pc = "in_cycle",
                                !.proc[p].cycles = @ + 1,
                                !.step = LifecycleStep("cycle_begin", p, "none")]
         ELSE [Stop(p) EXCEPT !.proc[p].pc = "returned",
                              !.proc[p].result = "True",
                              !.step = LifecycleStep("loop_exit", p, "none")]
    /\ UNCHANGED <<classifier, statusIO>> /\ WorkflowFrame

\* _run_loop: _process_cycle ends with its status write, or raises and the
\* handler writes the error status; then the sleep begins
CycleEnd(p) ==
    /\ lifecycle.proc[p].pc = "in_cycle"
    /\ \E kind \in {"cycle", "error"} :
          lifecycle' = [lifecycle EXCEPT !.proc[p].pc = "sleep",
                                         !.proc[p].slice = 0,
                                         !.statusFile = StatusWrite(kind, TRUE, p),
                                         !.step = LifecycleStep("cycle_end", p, kind)]
    /\ UNCHANGED <<classifier, statusIO>> /\ WorkflowFrame

\* _run_loop: one pass of the sleep loop: break when the flag is down, else
\* time.sleep(1); after poll_interval slices the loop is over
SleepSlice(p) ==
    /\ lifecycle.proc[p].pc = "sleep"
    /\ lifecycle' =
         IF lifecycle.proc[p].slice = PollInterval \/ ~lifecycle.proc[p].running
         THEN [lifecycle EXCEPT !.proc[p].pc = "loop",
                                !.proc[p].slice = 0,
                                !.step = LifecycleStep("sleep_over", p, "none")]
         ELSE [lifecycle EXCEPT !.proc[p].slice = @ + 1,
                                !.step = LifecycleStep("sleep", p, "none")]
    /\ UNCHANGED <<classifier, statusIO>> /\ WorkflowFrame

\* _handle_signal: SIGTERM or SIGINT reaches a process that exists; the
\* handler, registered by __init__, runs stop() and the interrupted code resumes
HandleSignal(p) ==
    /\ lifecycle.proc[p].pc \in LivePCs
    /\ ~lifecycle.proc[p].signalled
    /\ lifecycle' = [Stop(p) EXCEPT !.proc[p].signalled = TRUE,
                                    !.step = LifecycleStep("signal", p, "none")]
    /\ UNCHANGED <<classifier, statusIO>> /\ WorkflowFrame

\* the process is killed outright (SIGKILL, power loss): nothing is cleaned up
Killed(p) ==
    /\ lifecycle.proc[p].pc \in LivePCs
    /\ lifecycle' = [lifecycle EXCEPT !.proc[p].pc = "dead",
                                      !.proc[p].result = "killed",
                                      !.step = LifecycleStep("killed", p, "none")]
    /\ UNCHANGED <<classifier, statusIO>> /\ WorkflowFrame

NextLifecycle ==
    \E p \in Procs :
       \/ StartIsRunning(p)
       \/ StartUnlinkStale(p)
       \/ StartWritePid(p)
       \/ StartConnect(p)
       \/ LoopTest(p)
       \/ CycleEnd(p)
       \/ SleepSlice(p)
       \/ HandleSignal(p)
       \/ Killed(p)

SpecLifecycle == InitLifecycle /\ [][NextLifecycle]_vars

\* ------------------------------------------- the status file, byte by byte
\* what a reader gets when there is nothing it can parse
DefaultStatus == [kind |-> "default", version |-> 0]

\* the dictionary of the n-th DaemonStatus.write
Snapshot(n) == [kind |-> "snapshot", version |-> n]

\* STATUS_FILE: absent, or the first `written` pieces of snapshot `version`
AbsentStatusFile == [kind |-> "absent", version |-> 0, written |-> 0]
OpenedStatusFile(n) == [kind |-> "file", version |-> n, written |-> 0]

\* DaemonStatus.read: json.load of whatever the file holds now; an empty or
\* truncated file does not parse, the exception is swallowed and the default
\* dictionary is returned
StatusRead(file) ==
    IF file.kind = "absent" THEN DefaultStatus
    ELSE IF file.written = Chunks THEN Snapshot(file.version)
    ELSE DefaultStatus

InitStatus ==
    /\ queue = [i \in Items |-> NewItem(i)]
    /\ tracker = EmptyTracker
    /\ cooldownFile = NoCooldownFile
    /\ clock = 0
    /\ cfg = DefaultConfig
    /\ mergedPRs = {}
    /\ phase = "status"
    /\ idx = 1
    /\ can_assign = FALSE
    /\ cycle = NewCycle
    /\ last = NoStep
    /\ returned = NoReturn
    /\ allowed = FALSE
    /\ classifier = NotClassifying
    /\ lifecycle = NoLifecycle
    /\ statusIO = [stage |-> "run", file |-> AbsentStatusFile, writing |-> FALSE,
                   complete |-> 0, reads |-> <<>>]
    /\ workflow_history = NoHistory
    /\ agent = NoAgent

StatusFrame == UNCHANGED <<classifier, lifecycle>> /\ WorkflowFrame

\* DaemonStatus.write: open(STATUS_FILE, 'w') creates or truncates the file
WriteOpen ==
    /\ statusIO.stage = "run"
    /\ ~statusIO.writing
    /\ statusIO.complete < MaxSnapshots
    /\ statusIO' = [statusIO EXCEPT !.file = OpenedStatusFile(statusIO.complete + 1),
                                    !.writing = TRUE]
    /\ StatusFrame

\* DaemonStatus.write: json.dump sends the next piece of the text to the file
WriteDump ==
    /\ statusIO.stage = "run"
    /\ statusIO.writing
    /\ statusIO.file.written < Chunks
    /\ statusIO' = [statusIO EXCEPT !.file.written = @ + 1]
    /\ StatusFrame

\* DaemonStatus.write: the with block is left, the file is closed
WriteClose ==
    /\ statusIO.stage = "run"
    /\ statusIO.writing
    /\ statusIO.file.written = Chunks
    /\ statusIO' = [statusIO EXCEPT !.writing = FALSE,
                                    !.complete = statusIO.file.version]
    /\ StatusFrame

\* the dashboard calls get_daemon_status, which calls DaemonStatus.read
DashboardRead ==
    /\ statusIO.stage = "run"
    /\ Len(statusIO.reads) < MaxReads
    /\ statusIO' = [statusIO EXCEPT !.reads =
                      Append(@, [got |-> StatusRead(statusIO.file),
                                 previous |-> statusIO.complete,
                                 writing |-> statusIO.writing])]
    /\ StatusFrame

NextStatus == WriteOpen \/ WriteDump \/ WriteClose \/ DashboardRead

SpecStatus == InitStatus /\ [][NextStatus]_vars

\* ---------------------------- the engine's queue under edits and refreshes
\* issue ids that can be put on the queue; the id n is mapped to issue number
\* n by the configuration's issue_numbers
IssueIds == 1..QueueLen

\* QueueItem(issue_id=...), with the issue number the configuration maps it to
QueueItem(id, n) ==
    [issue_id |-> id, state |-> "QUEUED", issue_number |-> n, pr_number |-> NoPR]

\* [item.issue_id for item in self.state.queue]
QueueIds(q) == [k \in DOMAIN q |-> q[k].issue_id]

\* index of the first item with this id (0: not in the queue)
QueueIndex(q, id) ==
    IF \E k \in DOMAIN q : q[k].issue_id = id
    THEN CHOOSE k \in DOMAIN q :
            /\ q[k].issue_id = id
            /\ \A j \in DOMAIN q : q[j].issue_id = id => k <= j
    ELSE 0

Swap(q, a, b) == [q EXCEPT ![a] = q[b], ![b] = q[a]]

\* move_item_up
MoveItemUp(q, id) ==
    LET k == QueueIndex(q, id) IN
    IF k > 1 THEN Swap(q, k, k - 1) ELSE q

\* move_item_down
MoveItemDown(q, id) ==
    LET k == QueueIndex(q, id) IN
    IF k > 0 /\ k < Len(q) THEN Swap(q, k, k + 1) ELSE q

\* remove_item
RemoveItem(q, id) ==
    LET k == QueueIndex(q, id) IN
    IF k > 0 THEN SubSeq(q, 1, k - 1) \o SubSeq(q, k + 1, Len(q)) ELSE q

\* add_item: position is the 0-based index of list.insert, -1 appends
AddItem(q, id, n, position) ==
    IF QueueIndex(q, id) > 0 THEN q
    ELSE IF position < 0 \/ position >= Len(q) THEN Append(q, QueueItem(id, n))
    ELSE SubSeq(q, 1, position) \o <<QueueItem(id, n)>> \o SubSeq(q, position + 1, Len(q))

\* a refresh that drops the items that are done
ItemRefreshedDropsDone(q, k, new) ==
    IF new.state \in {"MERGED", "COMPLETED"}
    THEN SubSeq(q, 1, k - 1) \o SubSeq(q, k + 1, Len(q))
    ELSE [q EXCEPT ![k] = new]

\* refresh_status / _process_cycle: the item object at position k is updated
\* in place, the list itself is not touched
ItemRefreshed(q, k, new) == [q EXCEPT ![k] = new]

\* the last step on the queue
QueueStep(op, k) == [op |-> op, idx |-> k]

InitQueue ==
    /\ classifier = NotClassifying
    /\ lifecycle = NoLifecycle
    /\ statusIO = NoStatusIO
    /\ workflow_history = NoHistory
    /\ agent = NoAgent
    /\ queue \in [Items -> {QueueItem(id, n) : id \in IssueIds, n \in {NoIssue} \cup IssueIds}]
    /\ \A i \in Items : queue[i].issue_id = i /\ queue[i].issue_number \in {NoIssue, i}
    /\ tracker = EmptyTracker
    /\ cooldownFile = NoCooldownFile
    /\ clock = 0
    /\ cfg = DefaultConfig
    /\ mergedPRs = {}
    /\ phase = "queue"
    /\ idx = 1
    /\ can_assign = FALSE
    /\ cycle = NewCycle
    /\ last = QueueStep("init", 0)
    /\ returned = NoReturn
    /\ allowed = FALSE

QueueFrame ==
    UNCHANGED <<clock, cfg, phase, idx, can_assign, cycle, returned, allowed,
                classifier, lifecycle, statusIO, workflow_history, agent>>

\* the explicit queue edits of the dashboard
QueueMoveItemUp ==
    /\ phase = "queue"
    /\ \E id \in IssueIds :
          /\ queue' = MoveItemUp(queue, id)
          /\ last' = QueueStep("move_item_up", QueueIndex(queue, id))
    /\ UNCHANGED <<tracker, cooldownFile, mergedPRs>>
    /\ QueueFrame

QueueMoveItemDown ==
    /\ phase = "queue"
    /\ \E id \in IssueIds :
          /\ queue' = MoveItemDown(queue, id)
          /\ last' = QueueStep("move_item_down", QueueIndex(queue, id))
    /\ UNCHANGED <<tracker, cooldownFile, mergedPRs>>
    /\ QueueFrame

QueueRemoveItem ==
    /\ phase = "queue"
    /\ \E id \in IssueIds :
          /\ queue' = RemoveItem(queue, id)
          /\ last' = QueueStep("remove_item", QueueIndex(queue, id))
    /\ UNCHANGED <<tracker, cooldownFile, mergedPRs>>
    /\ QueueFrame

QueueAddItem ==
    /\ phase = "queue"
    /\ \E id \in IssueIds, n \in {NoIssue} \cup IssueIds, position \in -1..QueueLen :
          /\ n \in {NoIssue, id}
          /\ queue' = AddItem(queue, id, n, position)
          /\ last' = QueueStep("add_item", position)
    /\ UNCHANGED <<tracker, cooldownFile, mergedPRs>>
    /\ QueueFrame

\* refresh_status, one pass of its loop: _update_item_status(item)
QueueRefreshItem ==
    /\ phase = "queue"
    /\ \E k \in DOMAIN queue :
       \E issue \in IssueLookup(queue[k].issue_id) :
       \E pr \in RefreshPRLookup(queue[k], issue) :
          /\ queue' = ItemRefreshed(queue, k, UpdateItemStatus(queue[k], issue, pr))
          /\ mergedPRs' = mergedPRs \cup SeenMerged(pr)
          /\ last' = QueueStep("refresh", k)
    /\ UNCHANGED <<tracker, cooldownFile>>
    /\ QueueFrame

\* _process_cycle, one pass of its loop: _process_item_with_cooldown(item,
\* can_assign).  The id stored with a completion or a loop-breaker entry is
\* written only; it stands as the item's position here.
QueueScanItem ==
    /\ phase = "queue"
    /\ \E k \in DOMAIN queue :
       \E pr \in ProcessPRLookup(queue[k]), ok \in BOOLEAN, ca \in BOOLEAN :
          LET r == ProcessItemWithCooldown(k, ca, pr, ok) IN
          /\ queue' = ItemRefreshed(queue, k, r.item)
          /\ tracker' = r.tracker
          /\ cooldownFile' = r.cooldownFile
          /\ mergedPRs' = mergedPRs \cup SeenMerged(pr) \cup
                          {c.arg : c \in {r.calls[j] : j \in DOMAIN r.calls} \cap
                                         {Call("merge_pr", n, TRUE) : n \in PRNumbers}}
          /\ last' = QueueStep("scan", k)
    /\ QueueFrame

NextQueue ==
    \/ QueueMoveItemUp \/ QueueMoveItemDown \/ QueueRemoveItem \/ QueueAddItem
    \/ QueueRefreshItem \/ QueueScanItem

SpecQueue == InitQueue /\ [][NextQueue]_vars

\* ------------------------- cycles over items that already hold a PR number
\* states an item is in while it holds a pull request
StatesWithPR == {"PR_OPEN", "REVIEW_REQUESTED", "REVIEWING", "CHANGES_REQUESTED",
                 "APPLYING_CHANGES", "APPROVED"}

\* the queue in the midst of a run: the first item holds no PR, or one
\* numbered up to MaxHeldPR (the repository has other pull requests than the
\* one it holds); the items behind it are still as constructed
HeldItems ==
    {it \in [state : {"QUEUED", "ASSIGNED"} \cup StatesWithPR,
             issue_number : {NoIssue} \cup Items,
             pr_number : {NoPR} \cup (1..MaxHeldPR)] :
        /\ (it.pr_number # NoPR) <=> (it.state \in StatesWithPR)
        /\ (it.state # "QUEUED") => (it.issue_number # NoIssue)}

InitHeld ==
    /\ classifier = NotClassifying
    /\ lifecycle = NoLifecycle
    /\ statusIO = NoStatusIO
    /\ workflow_history = NoHistory
    /\ agent = NoAgent
    /\ queue \in [Items -> HeldItems]
    /\ \A i \in Items : queue[i].issue_number \in {NoIssue, i}
    /\ \A i \in Items : i > 1 => queue[i] = NewItem(i)
    /\ tracker = EmptyTracker
    /\ cooldownFile = NoCooldownFile
    /\ clock = 0
    /\ cfg = DefaultConfig
    /\ mergedPRs = {}
    /\ phase = "held"
    /\ idx = 1
    /\ can_assign = FALSE
    /\ cycle = NewCycle
    /\ last = NoStep
    /\ returned = NoReturn
    /\ allowed = FALSE

HeldFrame ==
    UNCHANGED <<clock, cfg, phase, idx, can_assign, cycle, returned, allowed,
                classifier, lifecycle, statusIO, workflow_history, agent>>

\* engine.refresh_status, one pass of its loop: _update_item_status(item)
HeldRefreshItem ==
    /\ phase = "held"
    /\ \E k \in Items :
       \E issue \in IssueLookup(k) :
       \E pr \in RefreshPRLookup(queue[k], issue) :
          /\ queue' = [queue EXCEPT ![k] = UpdateItemStatus(queue[k], issue, pr)]
          /\ mergedPRs' = mergedPRs \cup SeenMerged(pr)
          /\ last' = Did("refresh", k, queue[k], issue, pr, <<>>, "")
    /\ UNCHANGED <<tracker, cooldownFile>>
    /\ HeldFrame

\* _process_cycle, one pass of its loop: _process_item_with_cooldown(item,
\* can_assign)
HeldScanItem ==
    /\ phase = "held"
    /\ \E k \in Items :
       \E pr \in ProcessPRLookup(queue[k]), ok \in BOOLEAN, ca \in BOOLEAN :
          LET r == ProcessItemWithCooldown(k, ca, pr, ok) IN
          /\ queue' = [queue EXCEPT ![k] = r.item]
          /\ tracker' = r.tracker
          /\ cooldownFile' = r.cooldownFile
          /\ mergedPRs' = mergedPRs \cup SeenMerged(pr) \cup
                          {c.arg : c \in {r.calls[j] : j \in DOMAIN r.calls} \cap
                                         {Call("merge_pr", n, TRUE) : n \in 1..MaxHeldPR}}
          /\ last' = Did("scan", k, queue[k], NoIssueInfo, NoPRInfo, <<>>, "")
    /\ HeldFrame

NextHeld == HeldRefreshItem \/ HeldScanItem

SpecHeld == InitHeld /\ [][NextHeld]_vars

\* ------------------ the daemon cycle against a service that always answers
\* The issue of item i has number i and the PR opened for it has number i.
\* assigned: the issue is assigned to the agent; pr: "none", "open", "merged";
\* reviewers: the PR has requested reviewers; reviewing: a review by the agent
\* is under way; reviewed: the agent has submitted a review (its body carries
\* the signature); pending: a review comment sits on the head commit;
\* applying / applied: an apply-changes comment is unanswered / was ever posted
NewIssue ==
    [assigned |-> FALSE, pr |-> "none", draft |-> FALSE, reviewers |-> FALSE,
     reviewing |-> FALSE, reviewed |-> FALSE, pending |-> FALSE,
     applying |-> FALSE, applied |-> FALSE, rounds |-> 0]

\* what _to_pr_info collects from the service for the PR of an issue
PRFacts(a) ==
    [merged |-> a.pr = "merged", closed |-> a.pr = "merged",
     review_state |-> IF a.reviewed THEN "COMMENTED" ELSE "NONE",
     copilot_has_reviewed |-> a.reviewed,
     has_pending_suggestions |-> HasPendingSuggestions(a.reviewed,
         IF a.pending THEN "on_latest_commit" ELSE "none_on_latest_commit"),
     copilot_work_just_finished |-> FALSE,
     requested_reviewers |-> a.reviewers,
     draft |-> a.draft,
     copilot_is_working |-> IF a.applied THEN a.applying ELSE a.reviewing]

\* get_pr_by_number(n) when every call succeeds
LivePRByNumber(n) ==
    IF agent[n].pr = "none" THEN NoPRInfo ELSE ToPRInfo(PRFacts(agent[n]), n)

\* get_pr_by_issue(issue_id): the open PR that names the issue, if any
LivePRByIssue(i) ==
    IF agent[i].pr = "open" THEN ToPRInfo(PRFacts(agent[i]), i) ELSE NoPRInfo

\* get_issue_by_number: the issue stays open, IN_PROGRESS once assigned
LiveIssue(i) ==
    [number |-> i, state |-> IF agent[i].assigned THEN "IN_PROGRESS" ELSE "OPEN"]

\* what a successful service call changes on the service
ServiceAfter(a, calls) ==
    IF calls = <<>> THEN a
    ELSE LET c == calls[1] IN
         CASE c.op = "assign_issue_to_copilot" ->
                [a EXCEPT ![c.arg].assigned = TRUE]
           [] c.op = "request_review_from_copilot" ->
                [a EXCEPT ![c.arg].reviewers = TRUE, ![c.arg].reviewing = TRUE]
           [] c.op = "comment_apply_changes" ->
                [a EXCEPT ![c.arg].applying = TRUE, ![c.arg].applied = TRUE]
           [] c.op = "mark_pr_ready_for_review" ->
                [a EXCEPT ![c.arg].draft = FALSE]
           [] c.op = "merge_pr" ->
                [a EXCEPT ![c.arg].pr = "merged", ![c.arg].reviewers = FALSE,
                          ![c.arg].reviewing = FALSE, ![c.arg].applying = FALSE]
           [] OTHER -> a

InitLive ==
    /\ classifier = NotClassifying
    /\ lifecycle = NoLifecycle
    /\ statusIO = NoStatusIO
    /\ workflow_history = NoHistory
    /\ agent = [i \in Items |-> NewIssue]
    /\ queue = [i \in Items |-> NewItem(i)]
    /\ tracker = EmptyTracker
    /\ cooldownFile = NoCooldownFile
    /\ clock = 0
    /\ cfg \in {DefaultConfig, [DefaultConfig EXCEPT !.skip_final_review = TRUE]}
    /\ mergedPRs = {}
    /\ phase = "refresh"
    /\ idx = 1
    /\ can_assign = FALSE
    /\ cycle = NewCycle
    /\ last = NoStep
    /\ returned = NoReturn
    /\ allowed = FALSE

LiveFrame == UNCHANGED <<classifier, lifecycle, statusIO, workflow_history>>

\* engine.refresh_status: one iteration of its loop over the queue
LiveRefreshItem ==
    /\ LiveFrame
    /\ phase = "refresh"
    /\ LET issue == LiveIssue(idx)
           pr == IF ~RefreshLooksUpPR(queue[idx], issue) THEN NoPRInfo
                 ELSE IF queue[idx].pr_number # NoPR
                 THEN ReadByRefresh(LivePRByNumber(queue[idx].pr_number))
                 ELSE ReadByRefresh(LivePRByIssue(idx))
           new == UpdateItemStatus(queue[idx], issue, pr)
       IN  /\ queue' = [queue EXCEPT ![idx] = new]
           /\ mergedPRs' = mergedPRs \cup SeenMerged(pr)
           /\ cycle' = [cycle EXCEPT !.queued_to_assigned =
                           IF queue[idx].state = "QUEUED" /\ new.state = "ASSIGNED"
                           THEN @ + 1 ELSE @,
                                     !.refreshed = @ + 1]
           /\ last' = Did("refresh", idx, queue[idx], issue, pr, <<>>, "")
    /\ IF idx < QueueLen
       THEN idx' = idx + 1 /\ phase' = phase
       ELSE idx' = 1 /\ phase' = "check"
    /\ UNCHANGED <<tracker, cooldownFile, clock, cfg, can_assign, returned, allowed,
                   agent>>

\* _process_cycle: one iteration of the loop over the queue; the call the
\* handler makes succeeds and takes effect on the service
LiveScanItem ==
    /\ LiveFrame
    /\ phase = "scan"
    /\ LET pr == IF ProcessFetchesPR(queue[idx])
                 THEN LivePRByNumber(queue[idx].pr_number) ELSE NoPRInfo
           r == ProcessItemWithCooldown(idx, can_assign, pr, TRUE)
       IN  /\ queue' = [queue EXCEPT ![idx] = r.item]
           /\ tracker' = r.tracker
           /\ cooldownFile' = r.cooldownFile
           /\ agent' = ServiceAfter(agent, r.calls)
           /\ mergedPRs' = mergedPRs \cup SeenMerged(pr) \cup
                           {c.arg : c \in {r.calls[k] : k \in DOMAIN r.calls} \cap
                                          {Call("merge_pr", n, TRUE) : n \in Items}}
           /\ can_assign' = IF ContainsAssigned(r.action) \/ ContainsCooldownStarted(r.action)
                            THEN FALSE ELSE can_assign
           /\ cycle' = [cycle EXCEPT
                          !.assigned = IF queue[idx].state = "QUEUED" /\ r.item.state = "ASSIGNED"
                                       THEN @ + 1 ELSE @,
                          !.queued_to_assigned =
                                       IF queue[idx].state = "QUEUED" /\ r.item.state = "ASSIGNED"
                                       THEN @ + 1 ELSE @,
                          !.scanned = @ + 1]
           /\ last' = Did("scan", idx, queue[idx], NoIssueInfo, pr, r.calls,
                           r.last_action)
    /\ IF idx < QueueLen
       THEN idx' = idx + 1 /\ phase' = phase
       ELSE idx' = 1 /\ phase' = "sleep"
    /\ UNCHANGED <<clock, cfg, returned, allowed>>

AgentFrame ==
    UNCHANGED <<queue, tracker, cooldownFile, clock, cfg, mergedPRs, phase, idx,
                can_assign, cycle, last, returned, allowed, classifier, lifecycle,
                statusIO, workflow_history>>

\* the agent opens a draft PR for the issue it was assigned
AgentOpensPR(i) ==
    /\ agent[i].assigned /\ agent[i].pr = "none"
    /\ agent' = [agent EXCEPT ![i].pr = "open", ![i].draft = TRUE]
    /\ AgentFrame

\* the agent finishes its first work on the PR and requests a review
AgentRequestsReview(i) ==
    /\ agent[i].pr = "open"
    /\ ~agent[i].reviewers /\ ~agent[i].reviewing /\ ~agent[i].reviewed
    /\ agent' = [agent EXCEPT ![i].reviewers = TRUE]
    /\ AgentFrame

\* the agent finishes a review round: it submits its review, with comments on
\* the head commit (at most MaxRounds times) or with nothing further to change
AgentFinishesReview(i) ==
    /\ agent[i].pr = "open" /\ agent[i].reviewing
    /\ \E suggestions \in BOOLEAN :
          /\ suggestions => agent[i].rounds < MaxRounds
          /\ agent' = [agent EXCEPT
                         ![i].reviewing = FALSE,
                         ![i].reviewers = FALSE,
                         ![i].reviewed = TRUE,
                         ![i].pending = @ \/ suggestions,
                         ![i].rounds = IF suggestions THEN @ + 1 ELSE @]
    /\ AgentFrame

\* the agent finishes an apply round: a new head commit, and its 'finished
\* work' comment
AgentFinishesApply(i) ==
    /\ agent[i].pr = "open" /\ agent[i].applying
    /\ agent' = [agent EXCEPT ![i].applying = FALSE, ![i].pending = FALSE]
    /\ AgentFrame

AgentStep ==
    \E i \in Items :
       \/ AgentOpensPR(i) \/ AgentRequestsReview(i)
       \/ AgentFinishesReview(i) \/ AgentFinishesApply(i)

DaemonStep == LiveRefreshItem \/ CheckCooldown \/ LiveScanItem \/ NextCycle

NextLive == DaemonStep \/ Tick \/ AgentStep

\* the daemon keeps cycling, and the agent finishes whatever it has begun
SpecLive ==
    /\ InitLive /\ [][NextLive]_vars
    /\ WF_vars(DaemonStep)
    /\ \A i \in Items :
          /\ WF_vars(AgentOpensPR(i))
          /\ WF_vars(AgentRequestsReview(i))
          /\ WF_vars(AgentFinishesReview(i))
          /\ WF_vars(AgentFinishesApply(i))

\* ------------------------------------------ the WorkflowHistory driven alone
\* list[-n:]
LastN(list, n) ==
    IF Len(list) > n THEN SubSeq(list, Len(list) - n + 1, Len(list)) ELSE list

\* list[:n]
FirstN(list, n) ==
    IF Len(list) > n THEN SubSeq(list, 1, n) ELSE list

\* self._data["issues"] with the key issue_id present
WithIssue(issues, issue_id) ==
    [k \in DOMAIN issues \cup {issue_id} |->
        IF k \in DOMAIN issues THEN issues[k] ELSE <<>>]

\* the event entry: the stamp stands for the entry's timestamp, event text,
\* state and pr_number, which the history stores and never compares
EventEntry(stamp) == [timestamp |-> stamp]

\* add_event that keeps the first events when the list is full
AddEventKeepsFirst(issues, issue_id, entry) ==
    LET appended == Append(WithIssue(issues, issue_id)[issue_id], entry)
    IN  [WithIssue(issues, issue_id) EXCEPT ![issue_id] =
            IF Len(appended) > MAX_EVENTS_PER_ISSUE
            THEN FirstN(appended, MAX_EVENTS_PER_ISSUE) ELSE appended]

\* add_event: the value of self._data["issues"] after the append and the cut
AddEvent(issues, issue_id, entry) ==
    LET appended == Append(WithIssue(issues, issue_id)[issue_id], entry)
    IN  [WithIssue(issues, issue_id) EXCEPT ![issue_id] =
            IF Len(appended) > MAX_EVENTS_PER_ISSUE
            THEN LastN(appended, MAX_EVENTS_PER_ISSUE) ELSE appended]

\* get_history
GetHistory(issues, issue_id) ==
    IF issue_id \in DOMAIN issues THEN issues[issue_id] ELSE <<>>

\* _load with no history file: {"issues": {}}
NoIssuesYet == [k \in {} |-> <<>>]

\* WorkflowHistory(): issues is _data["issues"], file what _save has written;
\* recorded keeps, per item, every entry added so far in the order of the calls
InitHistory ==
    /\ classifier = NotClassifying
    /\ lifecycle = NoLifecycle
    /\ statusIO = NoStatusIO
    /\ workflow_history = [stage |-> "run", issues |-> NoIssuesYet, file |-> NoIssuesYet,
                            recorded |-> [i \in Items |-> <<>>]]
    /\ agent = NoAgent
    /\ queue = [i \in Items |-> NewItem(i)]
    /\ tracker = EmptyTracker
    /\ cooldownFile = NoCooldownFile
    /\ clock = 0
    /\ cfg = DefaultConfig
    /\ mergedPRs = {}
    /\ phase = "history"
    /\ idx = 1
    /\ can_assign = FALSE
    /\ cycle = NewCycle
    /\ last = NoStep
    /\ returned = NoReturn
    /\ allowed = FALSE

\* workflow_history.add_event(item.issue_id, ...), _save included
HistoryAddEvent ==
    /\ workflow_history.stage = "run"
    /\ \E i \in Items :
          /\ Len(workflow_history.recorded[i]) < MaxAdded
          /\ LET entry == EventEntry(Len(workflow_history.recorded[i]) + 1)
                 issues == AddEvent(workflow_history.issues, i, entry)
             IN  workflow_history' =
                    [workflow_history EXCEPT
                       !.issues = issues,
                       !.file = issues,
                       !.recorded = [@ EXCEPT ![i] = Append(@, entry)]]
    /\ UNCHANGED <<queue, tracker, cooldownFile, clock, cfg, mergedPRs, phase, idx,
                   can_assign, cycle, last, returned, allowed, classifier, lifecycle,
                   statusIO, agent>>

NextHistory == HistoryAddEvent

SpecHistory == InitHistory /\ [][NextHistory]_vars

\* ------------------------------------------------- claims on the daemon
CallsOf(step) == {step.calls[k] : k \in DOMAIN step.calls}

ServiceCallsOf(step) == {c \in CallsOf(step) : c.op \in ServiceOps}

InFlight(q) == {i \in Items : q[i].state \in InFlightStates}

\* the edges of the transition table
TableEdges ==
    {<<"QUEUED", "ASSIGNED">>, <<"ASSIGNED", "PR_OPEN">>,
     <<"PR_OPEN", "REVIEW_REQUESTED">>, <<"REVIEW_REQUESTED", "REVIEWING">>,
     <<"REVIEWING", "CHANGES_REQUESTED">>, <<"REVIEWING", "APPROVED">>,
     <<"CHANGES_REQUESTED", "APPLYING_CHANGES">>,
     <<"APPLYING_CHANGES", "REVIEWING">>, <<"APPLYING_CHANGES", "APPROVED">>,
     <<"APPROVED", "MERGED">>}
    \cup {<<s, "COMPLETED">> : s \in WorkflowState}
    \cup {<<s, "QUEUED">> : s \in WorkflowState \ Terminal}

\* the table edges the per-item processing can take without a loop-breaker entry
ScanEdges ==
    {<<"QUEUED", "ASSIGNED">>, <<"PR_OPEN", "REVIEW_REQUESTED">>,
     <<"REVIEW_REQUESTED", "REVIEWING">>,
     <<"CHANGES_REQUESTED", "APPLYING_CHANGES">>, <<"APPROVED", "MERGED">>}

C2_NoReviewRequestOnceMarked ==
    \A c \in CallsOf(last) :
        c.op = "request_review_from_copilot" => ~IsReviewDone(tracker, c.arg)

\* C3 as stated: under the default configuration at most one item is in flight
\* at the end of every cycle.
C3_OneInFlightAtCycleEnd ==
    (phase = "sleep" /\ cfg = DefaultConfig) => Cardinality(InFlight(queue)) <= 1

\* C3 amended: the per-item processing moves an item from QUEUED to ASSIGNED
\* only when no item is in flight, so that the item is then the only one in
\* flight.
C3_AssignedItemAloneInFlight ==
    [][\A i \in Items :
          (phase = "scan" /\ queue[i].state = "QUEUED" /\ queue'[i].state = "ASSIGNED")
              => (InFlight(queue) = {} /\ InFlight(queue') = {i})]_vars

C3_Witness ==
    /\ last.op = "scan"
    /\ last.old.state = "QUEUED"
    /\ queue[last.idx].state = "ASSIGNED"
    /\ last.idx = QueueLen
    /\ InFlight(queue) = {last.idx}

\* C4 as stated: within one cycle (refresh plus scan) at most one item changes
\* from QUEUED to ASSIGNED.
C4_OneQueuedToAssignedPerCycle == cycle.queued_to_assigned <= 1

\* C4 amended: the scan of one cycle moves at most one item from QUEUED to
\* ASSIGNED, and a QUEUED item it does not assign keeps its state and PR
\* number and has no last action written.
C4_OneAssignmentPerScan ==
    /\ cycle.assigned <= 1
    /\ (last.op = "scan" /\ last.old.state = "QUEUED"
          /\ queue[last.idx].state # "ASSIGNED")
       => /\ queue[last.idx].state = "QUEUED"
          /\ queue[last.idx].pr_number = last.old.pr_number
          /\ last.last_action = ""

C4_Witness ==
    /\ phase = "sleep"
    /\ cycle.assigned = 1
    /\ queue[1].state = "ASSIGNED"
    /\ \A i \in Items \ {1} : queue[i].state = "QUEUED"
    /\ last.op = "scan" /\ last.idx = QueueLen /\ last.old.state = "QUEUED"

\* C8 as stated: an item enters MERGED or COMPLETED exactly in the steps that
\* call record_completion for it, once.
RecordCompletionCalls(step, i) ==
    {k \in DOMAIN step.calls : step.calls[k] = Call("record_completion", i, TRUE)}

C8_CompletionRecordedOnce ==
    \A i \in Items :
        (/\ last.op \in {"refresh", "scan"}
         /\ last.idx = i
         /\ last.old.state \notin Terminal
         /\ queue[i].state \in Terminal)
        <=> Cardinality(RecordCompletionCalls(last, i)) = 1

\* C9 as stated: an item in MERGED or COMPLETED is never moved to a
\* non-terminal state and no Agent Control Service call is issued for it.
C9_TerminalStays ==
    (last.op \in {"refresh", "scan"} /\ last.old.state \in Terminal)
        => (queue[last.idx].state \in Terminal /\ ServiceCallsOf(last) = {})

\* C10: when the refresh finds the issue open and the PR of a non-terminal
\* item closed without merge, the item becomes QUEUED and loses its PR number.
C10_ClosedWithoutMergeResets ==
    (/\ last.op = "refresh"
     /\ last.old.state \notin Terminal
     /\ last.old.pr_number # NoPR
     /\ last.issue \in {"OPEN", "IN_PROGRESS"}
     /\ last.pr.state = "CLOSED")
    => (queue[last.idx].state = "QUEUED" /\ queue[last.idx].pr_number = NoPR)

C10_Witness ==
    /\ last.op = "refresh"
    /\ last.old.state = "CHANGES_REQUESTED"
    /\ last.old.pr_number # NoPR
    /\ last.issue = "OPEN"
    /\ last.pr.state = "CLOSED"
    /\ queue[last.idx].state = "QUEUED"
    /\ queue[last.idx].pr_number = NoPR

\* C5 as stated: an assignment request is issued, and a QUEUED item moved to
\* ASSIGNED by the workflow logic, only while the cooldown allows it (no
\* record, or now >= completedAt + cooldownDuration).
C5_AssignOnlyWhenCooldownAllows ==
    (/\ last.op \in {"scan", "act"}
     /\ \/ \E c \in CallsOf(last) : c.op = "assign_issue_to_copilot"
        \/ (last.old.state = "QUEUED" /\ queue[last.idx].state = "ASSIGNED"))
    => CanAssign(cooldownFile, clock).can

\* C11: whenever the status refresh observes an item's issue as closed, the
\* item becomes COMPLETED whatever its previous state, no PR lookup is made and
\* the PR number is left as it was.
C11_ClosedIssueCompletes ==
    (last.op = "refresh" /\ last.issue = "CLOSED")
    => /\ queue[last.idx].state = "COMPLETED"
       /\ last.lookup = "none"
       /\ last.pr = NoPRInfo
       /\ queue[last.idx].pr_number = last.old.pr_number

C11_Witness ==
    /\ last.op = "refresh"
    /\ last.issue = "CLOSED"
    /\ last.old.state = "REVIEWING"
    /\ last.old.pr_number # NoPR
    /\ queue[last.idx].state = "COMPLETED"

\* ---------------------------------------------- claims on the classifier
\* the flags of a classification are among the facts the workflow is fed
ClassifierFactsAreRawFacts ==
    classifier.stage = "returned" => classifier.facts \in RawFacts

NoTimelineWorkMarkers ==
    /\ classifier.locals.latest_work_started = PyNone
    /\ classifier.locals.latest_work_finished = PyNone

ReviewCompletedOnTimeline ==
    /\ classifier.locals.latest_work_started # PyNone
    /\ classifier.locals.latest_work_finished # PyNone
    /\ classifier.locals.latest_review_requested # PyNone
    /\ classifier.locals.latest_work_started.t <= classifier.locals.latest_work_finished.t
    /\ classifier.locals.latest_work_finished.t > classifier.locals.latest_review_requested.t

SecondsSinceReviewCompleted ==
    (classifier.locals.now - classifier.locals.latest_work_finished.t) * SecondsPerTick

\* C13 as stated: for an open PR with no formal verdict and no pending
\* suggestion whose agent review completed at T, the classification is
\* REVIEW_REQUESTED less than 120s after T and APPROVED from 120s on.
C13_GracePeriod ==
    (/\ classifier.stage = "returned"
     /\ ~classifier.facts.merged /\ ~classifier.facts.closed
     /\ classifier.facts.review_state \notin {"APPROVED", "CHANGES_REQUESTED"}
     /\ ~classifier.facts.has_pending_suggestions
     /\ ReviewCompletedOnTimeline)
    => IF SecondsSinceReviewCompleted < GracePeriodSeconds
       THEN classifier.state = "REVIEW_REQUESTED"
       ELSE classifier.state = "APPROVED"

\* the grace period is active: the agent's review completed on the timeline
\* less than 120s ago
GracePeriodActive ==
    ReviewCompletedOnTimeline /\ SecondsSinceReviewCompleted < GracePeriodSeconds

\* C14 as stated: the returned PRState is the one selected by the first
\* matching rule of the priority list (with the grace period active, the
\* agent-reviewed rule does not select APPROVED).
C14_FirstMatchingRule ==
    classifier.stage = "returned" =>
        LET f == classifier.facts
            rest == IF f.requested_reviewers /\ ~f.copilot_has_reviewed
                    THEN "REVIEW_REQUESTED"
                    ELSE IF f.draft THEN "DRAFT" ELSE "OPEN"
        IN  IF f.merged THEN classifier.state = "MERGED"
            ELSE IF f.closed THEN classifier.state = "CLOSED"
            ELSE IF f.review_state = "APPROVED" THEN classifier.state = "APPROVED"
            ELSE IF f.review_state = "CHANGES_REQUESTED"
                 THEN classifier.state = "CHANGES_REQUESTED"
            ELSE IF f.copilot_has_reviewed /\ f.has_pending_suggestions
                 THEN classifier.state = "CHANGES_REQUESTED"
            ELSE IF f.copilot_has_reviewed /\ ~GracePeriodActive
                 THEN classifier.state = "APPROVED"
            ELSE IF f.copilot_has_reviewed
                 THEN classifier.state \in {"REVIEW_REQUESTED", rest}
            ELSE classifier.state = rest

\* C15 as stated: when the latest apply-changes request has no later
\* 'finished work' announcement, copilot_is_working is true and a PR that is
\* neither merged nor closed is not classified APPROVED.
C15_NoCompletedStateWhileWorking ==
    (/\ classifier.stage = "returned"
     /\ classifier.locals.has_apply_changes_request
     /\ ~(/\ classifier.locals.copilot_finished_work_time # PyNone
          /\ classifier.locals.copilot_finished_work_time.t >
               classifier.locals.apply_changes_request_time.t))
    => /\ classifier.facts.copilot_is_working
       /\ (~classifier.facts.merged /\ ~classifier.facts.closed)
             => classifier.state # "APPROVED"

\* C16: a failed timeline fetch leaves the flags as an empty timeline does, a
\* failed comment fetch leaves copilot_is_working as an empty comment list
\* does, and the classification returns a PRState.
C16_FailedSourceContributesNothing ==
    /\ (classifier.stage = "comments" /\ ~classifier.timeline.ok)
       => LET e == TimelineDetection(Fetched(<<>>), classifier.locals.now) IN
          /\ classifier.facts.copilot_is_working = e.copilot_is_working
          /\ classifier.facts.copilot_has_reviewed = e.copilot_has_reviewed
          /\ classifier.facts.copilot_work_just_finished = e.copilot_work_just_finished
    /\ (classifier.stage = "reviews" /\ ~classifier.comments.ok)
       => classifier.facts.copilot_is_working =
            CommentDecision(CommentScan(Fetched(<<>>)),
                            TimelineFlags(classifier.locals,
                                          classifier.locals.now).copilot_is_working)
    /\ (classifier.stage = "returned" => classifier.state \in PRState)

C16_Witness ==
    /\ classifier.stage = "reviews"
    /\ ~classifier.comments.ok
    /\ classifier.locals.latest_work_started # PyNone
    /\ classifier.facts.copilot_is_working

\* ------------------------------------------------- claims on failures
\* C17 as stated: when a service call made by the processing of an item
\* returns failure, the item's state, its PR number and the loop-breaker
\* entries are after the processing what they were before it.
C17_FailedCallChangesNothing ==
    [][(/\ phase = "scan"
        /\ \E c \in ServiceCallsOf(last') : ~c.ok)
       => (/\ queue'[idx].state = queue[idx].state
           /\ queue'[idx].pr_number = queue[idx].pr_number
           /\ tracker' = tracker)]_vars

\* C18 as stated: when the issue lookup, or the lookup of the item's PR by its
\* number, returns nothing, the refresh leaves the item's state and PR number
\* unchanged.
C18_FailedLookupChangesNothing ==
    (/\ last.op = "refresh"
     /\ \/ last.issue = "NONE"
        \/ (last.lookup = "get_pr_by_number" /\ last.pr = NoPRInfo))
    => /\ queue[last.idx].state = last.old.state
       /\ queue[last.idx].pr_number = last.old.pr_number

\* C19 as stated: whatever exception the refresh or the processing of one item
\* raises, every item of the queue has been refreshed and processed when the
\* cycle ends.
C19_CycleCoversEveryItem ==
    phase = "sleep" => (cycle.refreshed = QueueLen /\ cycle.scanned = QueueLen)

\* ------------------------------------------------ claims on the lifecycle
\* the PID file names a process that exists / a process that does not
PidFileNamesLiveProcess ==
    lifecycle.pidFile.kind = "pid" /\ ProcessExists(lifecycle.pidFile.pid)

PidFileNamesDeadProcess ==
    lifecycle.pidFile.kind = "pid" /\ ~ProcessExists(lifecycle.pidFile.pid)

\* process p makes the step named op
LifecycleStepBy(p, op) ==
    /\ lifecycle' # lifecycle
    /\ lifecycle'.step.p = p
    /\ lifecycle'.step.op = op

LoopPCs == {"loop", "in_cycle", "sleep"}

\* C21 as stated: whatever the interleaving of the start attempts, at most one
\* process is inside the run loop, and two processes are never both in a cycle.
C21_AtMostOneDaemonInLoop ==
    \A p, q \in Procs :
       (lifecycle.proc[p].pc \in LoopPCs /\ lifecycle.proc[q].pc \in LoopPCs) => p = q

\* C22 as stated (its safety part): once a terminate or interrupt signal has
\* been delivered to a daemon, that daemon begins no further cycle, and the
\* next pass of its sleep loop leaves the sleep.
C22_NoCycleAfterSignal ==
    [][\A p \in Procs :
         lifecycle.proc[p].signalled =>
            /\ ~LifecycleStepBy(p, "cycle_begin")
            /\ ~LifecycleStepBy(p, "sleep")
      ]_vars

\* ---------------------------------------------- claims on the status file
\* C23 as stated: a read that runs while the daemon writes the status file
\* gets the complete previous snapshot (the default dictionary when no snapshot
\* was written yet) or the complete new one, never the content of an empty or
\* partly written file.
C23_ReadSeesWholeSnapshot ==
    \A k \in DOMAIN statusIO.reads :
       LET r == statusIO.reads[k] IN
       \/ r.got = (IF r.previous = 0 THEN DefaultStatus ELSE Snapshot(r.previous))
       \/ r.writing /\ r.got = Snapshot(r.previous + 1)

\* ------------------------------------------------- claims on the queue
\* C24 as stated: at every moment a pull request number is held by at most
\* one queue item.
C24_PRNumberHeldByOneItem ==
    \A i, j \in Items :
       (queue[i].pr_number # NoPR /\ queue[i].pr_number = queue[j].pr_number) => i = j

\* the explicit queue edits
QueueEdits == {"add_item", "remove_item", "move_item_up", "move_item_down"}

\* C25: a step of the status refresh or of the daemon's item processing leaves
\* the sequence of item ids of the queue as it was: nothing is added, removed
\* or reordered and no id changes, also when the item reaches MERGED or
\* COMPLETED; whenever the sequence of ids changes, the step is one of the
\* explicit queue edits.
C25_OnlyEditsChangeTheQueue ==
    [][/\ last'.op \in {"refresh", "scan"} => QueueIds(queue') = QueueIds(queue)
       /\ QueueIds(queue') # QueueIds(queue) => last'.op \in QueueEdits
      ]_vars

\* a refresh has just completed the second item of a queue that an edit had
\* reordered before; the item is still there
C25_Witness ==
    /\ phase = "queue"
    /\ last.op = "refresh"
    /\ last.idx = 2
    /\ Len(queue) = 2
    /\ queue[2].state = "COMPLETED"
    /\ queue[1].state = "MERGED"
    /\ QueueIds(queue) = <<2, 1>>

\* C26: whenever the per-item processing issues an assignment request, the
\* item it is for is QUEUED and has an issue number, which is the one the
\* request names, every item before it in the queue is in a state other than
\* QUEUED, and no item of the queue is in flight at that moment.
C26_AssignsFirstQueuedOnly ==
    [][(phase = "scan" /\ last'.op \in {"scan", "scan_raised"}) =>
         \A c \in CallsOf(last') :
            c.op = "assign_issue_to_copilot" =>
               /\ queue[idx].state = "QUEUED"
               /\ queue[idx].issue_number # NoIssue
               /\ c.arg = queue[idx].issue_number
               /\ \A j \in 1..(idx - 1) : queue[j].state # "QUEUED"
               /\ InFlight(queue) = {}
      ]_vars

\* the second item has just been assigned: the first one was done
C26_Witness ==
    /\ last.op = "scan"
    /\ last.idx = 2
    /\ Call("assign_issue_to_copilot", 2, TRUE) \in CallsOf(last)
    /\ queue[1].state \in Terminal
    /\ queue[2].state = "ASSIGNED"

\* C27 as stated: the per-item processing of one item makes at most one
\* service call, and when it makes none (the item matched no rule) the item's
\* state and PR number are as before and no last action is written.
C27_OneCallPerItem ==
    [][(phase = "scan" /\ last'.op \in {"scan", "scan_raised"}) =>
         /\ Cardinality({k \in DOMAIN last'.calls : last'.calls[k].op \in ServiceOps}) <= 1
         /\ ServiceCallsOf(last') = {} =>
               /\ queue'[idx] = queue[idx]
               /\ last'.last_action = ""
      ]_vars

\* ------------------------------------------ claims on the in-progress states
\* C28 as stated: when the refresh of an item in REVIEWING or APPLYING_CHANGES
\* gets a PR classified REVIEW_REQUESTED, DRAFT or OPEN (with or without
\* requested reviewers), the item is not moved to ASSIGNED, PR_OPEN or
\* REVIEW_REQUESTED.
C28_NoRegressFromInProgress ==
    (/\ last.op = "refresh"
     /\ last.old.state \in {"REVIEWING", "APPLYING_CHANGES"}
     /\ last.pr.state \in {"REVIEW_REQUESTED", "DRAFT", "OPEN"})
    => queue[last.idx].state \notin {"ASSIGNED", "PR_OPEN", "REVIEW_REQUESTED"}

\* C29 as stated: when the per-item processing of an item in REVIEWING or
\* APPLYING_CHANGES reads a PR whose copilot_is_working is true, it makes no
\* service call for the item and leaves the item's state as it was.
C29_WaitsWhileAgentWorks ==
    (/\ last.op = "scan"
     /\ last.old.state \in {"REVIEWING", "APPLYING_CHANGES"}
     /\ last.pr.copilot_is_working)
    => /\ ServiceCallsOf(last) = {}
       /\ queue[last.idx].state = last.old.state

\* C30 as stated: the per-item processing moves an item from
\* CHANGES_REQUESTED to APPLYING_CHANGES only with a successful apply-changes
\* comment and records the loop-breaker entry of its PR in the same step; after
\* a failed comment there is no new entry and the item is still in
\* CHANGES_REQUESTED; and every item in APPLYING_CHANGES has a loop-breaker
\* entry for its PR number.
C30_ApplyingChangesHasEntry ==
    /\ (last.op = "scan" /\ last.old.state = "CHANGES_REQUESTED"
          /\ queue[last.idx].state = "APPLYING_CHANGES")
       => /\ Call("comment_apply_changes", last.old.pr_number, TRUE) \in CallsOf(last)
          /\ IsReviewDone(tracker, last.old.pr_number)
    /\ (last.op = "scan" /\ last.old.state = "CHANGES_REQUESTED"
          /\ Call("comment_apply_changes", last.old.pr_number, FALSE) \in CallsOf(last))
       => /\ queue[last.idx].state = "CHANGES_REQUESTED"
          /\ ~IsReviewDone(tracker, last.old.pr_number)
    /\ \A i \in Items :
          queue[i].state = "APPLYING_CHANGES" =>
             (queue[i].pr_number # NoPR /\ IsReviewDone(tracker, queue[i].pr_number))

\* C31 as stated: the per-item processing of an item in APPLYING_CHANGES
\* changes the item's state, or makes a mark-ready or merge call for it, only
\* when the PR it reads is not working and not classified CHANGES_REQUESTED.
C31_ApplyingChangesAdvancesWhenDone ==
    (/\ last.op = "scan"
     /\ last.old.state = "APPLYING_CHANGES"
     /\ \/ queue[last.idx].state # "APPLYING_CHANGES"
        \/ \E c \in CallsOf(last) : c.op \in {"mark_pr_ready_for_review", "merge_pr"})
    => (~last.pr.copilot_is_working /\ last.pr.state # "CHANGES_REQUESTED")

\* ------------------------------------------------------ claims on merging
\* C32: the per-item processing makes a merge call only when auto_merge is on
\* and the PR it has read is not a draft; for an APPROVED item whose PR it reads
\* as a draft, the only service call it can make is mark-ready for that PR and
\* the item stays APPROVED; and it moves an item to MERGED only with a merge
\* call for the item's PR that returned success.
C32_MergeOnlyWhenReady ==
    last.op \in {"scan", "scan_raised"} =>
       /\ \A c \in CallsOf(last) :
             c.op = "merge_pr" =>
                (cfg.auto_merge /\ last.pr # NoPRInfo /\ ~last.pr.is_draft)
       /\ (last.old.state = "APPROVED" /\ last.pr # NoPRInfo /\ last.pr.is_draft) =>
             /\ \A c \in ServiceCallsOf(last) :
                   c.op = "mark_pr_ready_for_review" /\ c.arg = last.old.pr_number
             /\ queue[last.idx].state = "APPROVED"
       /\ (last.old.state # "MERGED" /\ queue[last.idx].state = "MERGED") =>
             Call("merge_pr", last.old.pr_number, TRUE) \in CallsOf(last)

\* an APPROVED item with a draft PR has just had the PR marked ready
C32_Witness ==
    /\ last.op = "scan"
    /\ last.old.state = "APPROVED"
    /\ last.pr.is_draft
    /\ ~IsReviewDone(tracker, last.old.pr_number)
    /\ CallsOf(last) = {Call("mark_pr_ready_for_review", last.old.pr_number, TRUE)}
    /\ queue[last.idx].state = "APPROVED"


\* ------------------------------------- claims on the classifier's signals
\* the timeline's latest 'work started' has no later 'work finished'
WorkStartedUnfinished ==
    /\ classifier.locals.latest_work_started # PyNone
    /\ \/ classifier.locals.latest_work_finished = PyNone
       \/ classifier.locals.latest_work_started.t > classifier.locals.latest_work_finished.t

\* C33 as stated: when the timeline's latest 'work started' marker has no later
\* 'work finished' marker, the classification returns copilot_is_working =
\* TRUE, whatever the issue comments hold.
C33_UnfinishedWorkMeansWorking ==
    (classifier.stage = "returned" /\ WorkStartedUnfinished)
    => classifier.facts.copilot_is_working


\* C34: a returned CHANGES_REQUESTED that is not a formal verdict (and not a
\* merged or closed PR) means that the review was deemed complete and a review
\* comment sits on the latest commit; review comments on older commits only
\* never set has_pending_suggestions; and while the review is not deemed
\* complete the review comments are not fetched at all.
C34_PendingOnlyOnHeadCommit ==
    classifier.stage = "returned" =>
       /\ (/\ classifier.state = "CHANGES_REQUESTED"
           /\ classifier.facts.review_state # "CHANGES_REQUESTED")
          => (/\ classifier.facts.copilot_has_reviewed
              /\ classifier.review_comments = "on_latest_commit")
       /\ classifier.review_comments = "none_on_latest_commit"
          => ~classifier.facts.has_pending_suggestions
       /\ ~classifier.facts.copilot_has_reviewed
          => (/\ classifier.review_comments = "not_fetched"
              /\ ~classifier.facts.has_pending_suggestions)

C34_Witness ==
    /\ classifier.stage = "returned"
    /\ classifier.state = "CHANGES_REQUESTED"
    /\ classifier.facts.review_state \in {"NONE", "COMMENTED"}
    /\ classifier.facts.copilot_has_reviewed
    /\ classifier.review_comments = "on_latest_commit"


\* ------------------------------------------ claims on the stored numbers
\* C35: in every step of a cycle, an item that holds a PR number keeps it, or
\* loses it in a refresh that found its pull request closed without merge; an
\* item that holds an issue number keeps it.
C35_NumbersAreStable ==
    [][\A i \in Items :
          /\ queue[i].pr_number # NoPR =>
                \/ queue'[i].pr_number = queue[i].pr_number
                \/ /\ queue'[i].pr_number = NoPR
                   /\ last'.op = "refresh" /\ last'.idx = i
                   /\ last'.pr.state = "CLOSED"
          /\ queue[i].issue_number # NoIssue =>
                queue'[i].issue_number = queue[i].issue_number]_vars

\* an item that holds PR #2 has been refreshed from that PR while PR #1 exists
C35_Witness ==
    /\ last.op = "refresh"
    /\ last.old.pr_number = MaxHeldPR
    /\ last.lookup = "get_pr_by_number"
    /\ last.pr.number = MaxHeldPR
    /\ last.pr.state = "CHANGES_REQUESTED"
    /\ queue[last.idx].pr_number = MaxHeldPR
    /\ queue[last.idx].issue_number = last.idx


\* ---------------------------------------- claims on the workflow history
\* C36: after any sequence of add_event calls each item's history holds at
\* most MAX_EVENTS_PER_ISSUE entries, and they are the most recent entries
\* recorded for that item, in the order they were added (so an add_event for
\* one item leaves the history of every other item as it was).
C36_HistoryKeepsLatest ==
    workflow_history.stage = "run" =>
       \A i \in Items :
          LET h == GetHistory(workflow_history.issues, i)
              r == workflow_history.recorded[i]
          IN  /\ Len(h) <= MAX_EVENTS_PER_ISSUE
              /\ h = SubSeq(r, Len(r) - Len(h) + 1, Len(r))
              /\ Len(h) = IF Len(r) > MAX_EVENTS_PER_ISSUE
                          THEN MAX_EVENTS_PER_ISSUE ELSE Len(r)

C36_Witness ==
    /\ workflow_history.stage = "run"
    /\ Len(workflow_history.recorded[1]) = MAX_EVENTS_PER_ISSUE + 2
    /\ Len(GetHistory(workflow_history.issues, 1)) = MAX_EVENTS_PER_ISSUE
    /\ Len(workflow_history.recorded[2]) = 1


\* ------------------------------------------- claims on the loop breaker
\* C37: the per-item processing posts an apply-changes comment on a PR only
\* when the ReviewTracker holds no entry for that PR, and a comment that was
\* posted leaves the entry recorded: while the entry exists no further
\* apply-changes comment is posted for the PR.
C37_NoSecondApplyComment ==
    [][phase = "scan" =>
          \A c \in CallsOf(last') :
             c.op = "comment_apply_changes" =>
                /\ ~IsReviewDone(tracker, c.arg)
                /\ c.ok => IsReviewDone(tracker', c.arg)]_vars

\* an item found CHANGES_REQUESTED again, with the entry of its PR recorded,
\* has been processed without a comment
C37_Witness ==
    /\ last.op = "scan"
    /\ last.old.state = "CHANGES_REQUESTED"
    /\ last.old.pr_number # NoPR
    /\ IsReviewDone(tracker, last.old.pr_number)
    /\ \A c \in CallsOf(last) : c.op # "comment_apply_changes"


\* --------------------------------------------- claims on the PID file
\* the positions of a daemon between its _write_pid and the exit of its loop
HoldingPCs == {"connect", "loop", "in_cycle", "sleep"}

\* C38 as stated: from the moment a daemon has written the PID file until its
\* run loop has exited, the PID file holds that daemon's pid, and the status
\* file is not the 'stopped' snapshot of another daemon.
C38_PidFileHeldUntilLoopExit ==
    lifecycle.stage = "run" =>
       \A p \in Procs :
          lifecycle.proc[p].pc \in HoldingPCs =>
             /\ lifecycle.pidFile = PidFile(p)
             /\ ~(/\ lifecycle.statusFile.kind = "stopped"
                  /\ lifecycle.statusFile.by # p)


\* ------------------------------------------------ claims on termination
\* C39 as stated: every call of run_once returns: its loop over
\* process_next_action ends after finitely many iterations.
C39_RunOnceTerminates ==
    (phase = "run_once") ~> (phase = "done")


\* ---------------------------------------------------- claims on progress
\* C40 as stated: with the daemon cycling, every call succeeding, the issue
\* open and assigned, auto-assign and auto-merge on, and an agent that opens a
\* PR, finishes every review and apply round and in the end has nothing
\* further to change, every item that is assigned eventually reaches MERGED.
C40_AssignedReachesMerged ==
    \A i \in Items : (queue[i].state = "ASSIGNED") ~> (queue[i].state = "MERGED")

====
